---------------------------- MODULE Spec2Model ----------------------------
(***************************************************************************)
(* Model of the flow whiteboard's graph store (useFlowStore), its          *)
(* snapshot history (useHistoryStore), the knife tool's geometric query    *)
(* and the block whiteboard's connection snapping.                          *)
(*                                                                         *)
(* Numbers are integers.  Wherever the code halves a width or a height,    *)
(* the model works with doubled coordinates, so that every comparison the  *)
(* code makes is decided exactly.                                          *)
(***************************************************************************)
EXTENDS Integers, Sequences, FiniteSets, TLC

VARIABLES
    nodes,      \* useFlowStore.nodes : sequence of node records
    edges,      \* useFlowStore.edges : sequence of edge records
    past,       \* useHistoryStore.past : sequence of snapshots, oldest first
    future,     \* useHistoryStore.future : sequence of snapshots, nearest first
    isSaving,   \* useHistoryStore.isSaving
    uuid,       \* the last id issued (uuidv4() never repeats an id)
    lastOp,     \* the public operation that ran last, with its arguments
    pre,        \* the live graph as it was when lastOp was called
    batch,      \* what happened since the last startBatchOperation
    blocks,                 \* Whiteboard.blocks, each with its rendered size
    connections,            \* Whiteboard.connections
    isCreatingConnection,   \* Whiteboard.isCreatingConnection
    connectionStart,        \* Whiteboard.connectionStart (None is null)
    cursorPosition,         \* Whiteboard.cursorPosition
    nearestPoint,           \* Whiteboard.nearestPoint (None is null)
    prevPositionRef,        \* GroupNode.prevPositionRef.current of the group node
    ungroupTimers,          \* ids for which handleUngroup's timer is pending
    flowTimers,             \* createdNodes of each buildFlow whose timer is pending
    aliases,                \* pairs of holders (live graph, stack entries) that share objects
    isHolding,              \* KnifeTool.isHolding
    knifeListeners,         \* the window listeners of KnifeTool: None, or Some(isHolding
                            \* as the registered handleMouseMove has captured it)
    buttonDown              \* the mouse button is down since a mouse-down on the knife button

boardVars ==
    <<blocks, connections, isCreatingConnection, connectionStart, cursorPosition,
      nearestPoint>>

groupVars == <<prevPositionRef, ungroupTimers>>

promptVars == <<flowTimers>>

knifeVars == <<isHolding, knifeListeners, buttonDown>>

vars ==
    <<nodes, edges, past, future, isSaving, uuid, lastOp, pre, batch, blocks,
      connections, isCreatingConnection, connectionStart, cursorPosition,
      nearestPoint, prevPositionRef, ungroupTimers, flowTimers, aliases,
      isHolding, knifeListeners, buttonDown>>

----------------------------------------------------------------------------
(* Bounds of the model *)

\* the largest id uuidv4() issues (the initial node has id 1, uuids are 2, 3, ...)
MaxUuid == 3
\* past holds at most this many snapshots when saveState records
MaxHist == 2
\* the largest id uuidv4() issues while the history is exercised
MaxHistUuid == 2

----------------------------------------------------------------------------
(* JavaScript values *)

\* the value of a property that is present and holds undefined
Undefined == "#undefined"
\* the reading of a property that the object does not have
Absent == "#absent"
\* null
Null == "#null"

\* an optional argument or field: <<>> when omitted / undefined, <<v>> otherwise
None == <<>>
Some(v) == <<v>>

RECURSIVE SeqMap(_, _)
SeqMap(F(_), s) == IF s = <<>> THEN <<>> ELSE <<F(Head(s))>> \o SeqMap(F, Tail(s))

\* Array.prototype.filter
Filter(s, Test(_)) == SelectSeq(s, Test)

Ids(s) == {s[i].id : i \in DOMAIN s}

----------------------------------------------------------------------------
(* Nodes and edges of the store *)

\* data of a node created by addNode (and of the initial node)
DefaultData ==
    [label |-> "", text |-> "", name |-> "", textStyle |-> "{}",
     fontSize |-> "14", fontFamily |-> "Canva Sans", richTextFormats |-> <<>>]

Position(x, y) == [x |-> x, y |-> y]

NewNode(id, type, position) ==
    [id |-> id, type |-> type, position |-> position,
     width |-> None, height |-> None, data |-> DefaultData]

initialNodes == << NewNode(1, "textNode", Position(250, 5)) >>

initialEdges == <<>>

\* The live graph as a value
Graph == [nodes |-> nodes, edges |-> edges]

----------------------------------------------------------------------------
(* JSON.parse(JSON.stringify(v)) *)

\* a property holding undefined is not written, so it is absent in the copy;
\* strings, finite numbers and null are copied as they are
jsonProperty(v) == IF v = Undefined THEN Absent ELSE v

jsonFormat(f) == [f EXCEPT !.value = jsonProperty(@)]

\* every other field of the data (a groupId) holds a string or a number
jsonData(d) ==
    [d EXCEPT !.label = jsonProperty(@),
              !.text = jsonProperty(@),
              !.name = jsonProperty(@),
              !.textStyle = jsonProperty(@),
              !.fontSize = jsonProperty(@),
              !.fontFamily = jsonProperty(@),
              !.richTextFormats = SeqMap(jsonFormat, @)]

jsonNode(n) == [n EXCEPT !.data = jsonData(@)]

jsonEdge(e) ==
    [e EXCEPT !.sourceHandle = jsonProperty(@), !.targetHandle = jsonProperty(@)]

jsonNodes(ns) == SeqMap(jsonNode, ns)

jsonEdges(es) == SeqMap(jsonEdge, es)

\* StateSnapshot (the timestamp, which nothing reads, is left out)
StateSnapshot(ns, es) == [nodes |-> jsonNodes(ns), edges |-> jsonEdges(es)]

----------------------------------------------------------------------------
(* Inputs of the store operations *)

\* a change list holds at most this many entries
MaxChanges == 1

NodeIds == 1..MaxUuid

Positions == {Position(0, 0), Position(100, 0)}

NodeTypes == {"textNode"}

\* a format entry as applyRichTextFormat('bold') builds it: no value is passed,
\* so the entry's value property holds undefined
BoldFormat == [start |-> 0, end |-> 1, format |-> "bold", value |-> Undefined]

ColorFormat == [start |-> 0, end |-> 1, format |-> "color", value |-> "#ff0000"]

\* the argument lists updateNodeText is called with
UpdateArgs ==
    { \* ContextMenu.handleDuplicate: text, label and name only
      [text |-> "a", label |-> Some("a (copy)"), name |-> Some(""),
       textStyle |-> None, fontSize |-> None, fontFamily |-> None,
       richTextFormats |-> None],
      \* TextNode with rich text: all eight arguments
      [text |-> "a", label |-> Some(""), name |-> Some(""),
       textStyle |-> Some("{}"), fontSize |-> Some("14"),
       fontFamily |-> Some("Canva Sans"),
       richTextFormats |-> Some(<<BoldFormat>>)],
      [text |-> "a", label |-> Some(""), name |-> Some(""),
       textStyle |-> Some("{}"), fontSize |-> Some("14"),
       fontFamily |-> Some("Canva Sans"),
       richTextFormats |-> Some(<<ColorFormat>>)] }

\* the handle pairs a connection is made with
HandlePairs == { <<Null, Null>>, <<"bottom", "top">> }

Connection(source, target, sourceHandle, targetHandle) ==
    [source |-> source, target |-> target,
     sourceHandle |-> sourceHandle, targetHandle |-> targetHandle]

\* change descriptors of the rendering library
RemoveChange(id) == [type |-> "remove", id |-> id, position |-> None]

PositionChange(id, p) == [type |-> "position", id |-> id, position |-> Some(p)]

NodeChanges ==
    {RemoveChange(id) : id \in NodeIds}
        \cup {PositionChange(id, p) : id \in NodeIds, p \in Positions}

EdgeChanges == {RemoveChange(id) : id \in NodeIds}

\* all sequences over S of length at most n
SeqsUpTo(S, n) == UNION {[1..k -> S] : k \in 0..n}

----------------------------------------------------------------------------
(* reactflow's helpers, as the store uses them *)

\* connectionExists: an edge with the same endpoints and handles is there
connectionExists(edge, es) ==
    \E i \in DOMAIN es :
        /\ es[i].source = edge.source
        /\ es[i].target = edge.target
        /\ es[i].sourceHandle = edge.sourceHandle
        /\ es[i].targetHandle = edge.targetHandle

\* addEdge(edgeParams, edges): the edge is appended unless an equivalent
\* connection exists
addEdge(edge, es) == IF connectionExists(edge, es) THEN es ELSE Append(es, edge)

\* one element under the changes that name it, in list order; a remove
\* drops the element at once: <<>> when dropped, <<item>> otherwise
RECURSIVE applyToItem(_, _)
applyToItem(currentChanges, item) ==
    IF currentChanges = <<>> THEN <<item>>
    ELSE LET c == Head(currentChanges) IN
         IF c.type = "remove" THEN <<>>
         ELSE IF c.type = "position" /\ c.position # None
              THEN applyToItem(Tail(currentChanges),
                               [item EXCEPT !.position = c.position[1]])
              ELSE applyToItem(Tail(currentChanges), item)

\* applyNodeChanges / applyEdgeChanges: elements.reduce over the elements
\* only the first change that names the element
changesOf_FirstOnly(changes, item) ==
    LET all == SelectSeq(changes, LAMBDA c : c.id = item.id)
    IN  IF all = <<>> THEN <<>> ELSE <<Head(all)>>

\* changes.filter(c => c.id === item.id)
changesOf(changes, item) == SelectSeq(changes, LAMBDA c : c.id = item.id)

RECURSIVE applyChanges(_, _)
applyChanges(changes, elements) ==
    IF elements = <<>> THEN <<>>
    ELSE LET item == Head(elements)
             currentChanges == changesOf(changes, item)
         IN  (IF currentChanges = <<>> THEN <<item>>
              ELSE applyToItem(currentChanges, item))
             \o applyChanges(changes, Tail(elements))

----------------------------------------------------------------------------
(* useFlowStore: the operations as functions of the store's state *)

\* a new node that takes the initial node's id instead of a fresh one
addNodeResult_InitialId(ns, id, type, position) ==
    Append(ns, NewNode(1, type, position))

addNodeResult(ns, id, type, position) == Append(ns, NewNode(id, type, position))

\* an assignment without the test: an omitted argument writes undefined
Provided_Always(arg, old) == IF arg # None THEN arg[1] ELSE Undefined

\* "only update ... if provided"
Provided(arg, old) == IF arg # None THEN arg[1] ELSE old

\* { ...node.data, text } and the assignments that follow it
updateData(d, a) ==
    [d EXCEPT !.text = a.text,
              !.label = Provided(a.label, @),
              !.name = Provided(a.name, @),
              !.textStyle = Provided(a.textStyle, @),
              !.fontSize = Provided(a.fontSize, @),
              !.fontFamily = Provided(a.fontFamily, @),
              !.richTextFormats = Provided(a.richTextFormats, @)]

updateNodeTextResult(ns, nodeId, a) ==
    [i \in DOMAIN ns |->
        IF ns[i].id = nodeId THEN [ns[i] EXCEPT !.data = updateData(@, a)]
        ELSE ns[i]]

deleteNodeNodes(ns, nodeId) == Filter(ns, LAMBDA node : node.id # nodeId)

\* a cascade that forgets the edges arriving at the node
deleteNodeEdges_SourceOnly(es, nodeId) ==
    Filter(es, LAMBDA edge : edge.source # nodeId)

deleteNodeEdges(es, nodeId) ==
    Filter(es, LAMBDA edge : edge.source # nodeId /\ edge.target # nodeId)

deleteEdgeResult(es, edgeId) == Filter(es, LAMBDA edge : edge.id # edgeId)

onConnectResult(es, connection, id) ==
    addEdge([id |-> id, source |-> connection.source, target |-> connection.target,
             sourceHandle |-> connection.sourceHandle,
             targetHandle |-> connection.targetHandle], es)

----------------------------------------------------------------------------
(* useFlowStore: the operations as actions *)

\* The observer of the calls.  lastOp and pre describe the last call.  batch
\* follows a batch from startBatchOperation to the state right after the
\* endBatchOperation that closes it: pastLen is Len(past) at the start, clean
\* tells that only mutations and saveState calls were made inside,
\* mutations and saves count them (up to MaxCount), and start is the live
\* graph at the start, kept while the batch is clean.
MaxCount == 2

NoBatch ==
    [open |-> FALSE, clean |-> FALSE, pastLen |-> 0, mutations |-> 0, saves |-> 0,
     start |-> [nodes |-> <<>>, edges |-> <<>>]]

Count(n) == IF n < MaxCount THEN n + 1 ELSE n

BatchAfter(op) ==
    IF op = "startBatchOperation"
    THEN [open |-> TRUE, clean |-> TRUE, pastLen |-> Len(past),
          mutations |-> 0, saves |-> 0, start |-> Graph]
    ELSE IF ~batch.open THEN NoBatch
    ELSE IF op = "endBatchOperation" THEN [batch EXCEPT !.open = FALSE]
    ELSE IF op = "saveState" THEN [batch EXCEPT !.saves = Count(@)]
    ELSE IF op \in {"undo", "redo", "clearHistory"}
         THEN [batch EXCEPT !.clean = FALSE, !.start = NoBatch.start]
    ELSE [batch EXCEPT !.mutations = Count(@)]

Track(op, arg) ==
    /\ lastOp' = [op |-> op, par |-> arg]
    /\ pre' = Graph
    /\ batch' = BatchAfter(op)
    /\ UNCHANGED boardVars
    /\ UNCHANGED groupVars
    /\ UNCHANGED promptVars
    /\ UNCHANGED knifeVars

\* no operation of the flow store calls the history store or writes into an
\* object it did not build itself
HistoryUnchanged == UNCHANGED <<past, future, isSaving, aliases>>

addNode(type, position) ==
    /\ uuid < MaxUuid
    /\ uuid' = uuid + 1
    /\ nodes' = addNodeResult(nodes, uuid + 1, type, position)
    /\ UNCHANGED edges
    /\ HistoryUnchanged
    /\ Track("addNode", <<type, position>>)

updateNodeText(nodeId, a) ==
    /\ nodes' = updateNodeTextResult(nodes, nodeId, a)
    /\ UNCHANGED <<edges, uuid>>
    /\ HistoryUnchanged
    /\ Track("updateNodeText", <<nodeId, a>>)

deleteNode(nodeId) ==
    /\ nodes' = deleteNodeNodes(nodes, nodeId)
    /\ edges' = deleteNodeEdges(edges, nodeId)
    /\ UNCHANGED uuid
    /\ HistoryUnchanged
    /\ Track("deleteNode", nodeId)

deleteEdge(edgeId) ==
    /\ edges' = deleteEdgeResult(edges, edgeId)
    /\ UNCHANGED <<nodes, uuid>>
    /\ HistoryUnchanged
    /\ Track("deleteEdge", edgeId)

onConnect(connection) ==
    /\ uuid < MaxUuid
    /\ uuid' = uuid + 1
    /\ edges' = onConnectResult(edges, connection, uuid + 1)
    /\ UNCHANGED nodes
    /\ HistoryUnchanged
    /\ Track("onConnect", connection)

onNodesChange(changes) ==
    /\ nodes' = applyChanges(changes, nodes)
    /\ UNCHANGED <<edges, uuid>>
    /\ HistoryUnchanged
    /\ Track("onNodesChange", changes)

onEdgesChange(changes) ==
    /\ edges' = applyChanges(changes, edges)
    /\ UNCHANGED <<nodes, uuid>>
    /\ HistoryUnchanged
    /\ Track("onEdgesChange", changes)

----------------------------------------------------------------------------
(* useHistoryStore *)

StoreUnchanged == UNCHANGED <<nodes, edges, uuid>>

\* The holders of object trees: the live graph, the entries of the stacks and
\* the snapshot an operation is building.  Two holders are aliased when an
\* object (an array, a node, an edge, a data record) is reachable from both.
Live == <<"live", 0>>

PastEntry(i) == <<"past", i>>

FutureEntry(i) == <<"future", i>>

NewSnapshot == <<"snapshot", 0>>

Dropped == <<"dropped", 0>>

sharesWith(al, h) == {g \in UNION al : g # h /\ {h, g} \in al}

\* a snapshot that keeps the arrays it is given
copyShares_Reference(al, h) == {h} \cup sharesWith(al, h)

\* JSON.parse(JSON.stringify(v)) builds every object anew: the copy shares
\* nothing with the holder h of v
copyShares(al, h) == {}

\* the aliases once the snapshot of the live graph is built
withSnapshot(al) == al \cup {{NewSnapshot, g} : g \in copyShares(al, Live)}

\* the aliases with every holder h renamed to r(h)
renamed(al, r(_)) ==
    {q \in {{r(h) : h \in p} : p \in al} : Dropped \notin q /\ Cardinality(q) = 2}

\* saveState: the snapshot becomes entry n + 1 of past, future is emptied
saveStateAliases(al, saving, n) ==
    IF saving THEN al
    ELSE renamed(withSnapshot(al),
                 LAMBDA h : IF h = NewSnapshot THEN PastEntry(n + 1)
                            ELSE IF h[1] = "future" THEN Dropped
                            ELSE h)

\* undo on a past of n entries: the arrays of entry n become the live graph,
\* the snapshot becomes the first entry of future
undoAliases(al, n) ==
    renamed(withSnapshot(al),
            LAMBDA h : IF h = Live THEN Dropped
                       ELSE IF h = PastEntry(n) THEN Live
                       ELSE IF h = NewSnapshot THEN FutureEntry(1)
                       ELSE IF h[1] = "future" THEN FutureEntry(h[2] + 1)
                       ELSE h)

\* redo on a past of n entries: the arrays of the first entry of future
\* become the live graph, the snapshot becomes entry n + 1 of past
redoAliases(al, n) ==
    renamed(withSnapshot(al),
            LAMBDA h : IF h = Live THEN Dropped
                       ELSE IF h = FutureEntry(1) THEN Live
                       ELSE IF h = NewSnapshot THEN PastEntry(n + 1)
                       ELSE IF h[1] = "future" THEN FutureEntry(h[2] - 1)
                       ELSE h)

\* a saveState that records while isSaving is set
saveStatePast_Always(p, saving, ns, es) == Append(p, StateSnapshot(ns, es))

\* saveState as a function of the stacks: returns at once while isSaving
saveStatePast(p, saving, ns, es) ==
    IF saving THEN p ELSE Append(p, StateSnapshot(ns, es))

\* a saveState that keeps the redo stack
saveStateFuture_Keep(f, saving) == f

saveStateFuture(f, saving) == IF saving THEN f ELSE <<>>

saveState ==
    /\ isSaving \/ Len(past) < MaxHist
    /\ past' = saveStatePast(past, isSaving, nodes, edges)
    /\ future' = saveStateFuture(future, isSaving)
    /\ aliases' = saveStateAliases(aliases, isSaving, Len(past))
    /\ UNCHANGED isSaving
    /\ StoreUnchanged
    /\ Track("saveState", <<isSaving, Len(future)>>)

\* an undo that marks and unmarks the operation before it looks at past
undo_FlagFirst ==
    /\ IF Len(past) = 0
       THEN UNCHANGED <<nodes, edges, past, future, aliases>>
       ELSE /\ nodes' = past[Len(past)].nodes
            /\ edges' = past[Len(past)].edges
            /\ past' = SubSeq(past, 1, Len(past) - 1)
            /\ future' = <<StateSnapshot(nodes, edges)>> \o future
            /\ aliases' = undoAliases(aliases, Len(past))
    /\ isSaving' = FALSE
    /\ UNCHANGED uuid
    /\ Track("undo", Len(past) # 0)

undo ==
    /\ IF Len(past) = 0
       THEN UNCHANGED <<nodes, edges, past, future, isSaving, aliases>>
       ELSE LET currentState == StateSnapshot(nodes, edges)
                previousState == past[Len(past)]
            IN  /\ nodes' = previousState.nodes
                /\ edges' = previousState.edges
                /\ past' = SubSeq(past, 1, Len(past) - 1)
                /\ future' = <<currentState>> \o future
                /\ aliases' = undoAliases(aliases, Len(past))
                /\ isSaving' = FALSE
    /\ UNCHANGED uuid
    /\ Track("undo", Len(past) # 0)

redo ==
    /\ IF Len(future) = 0
       THEN UNCHANGED <<nodes, edges, past, future, isSaving, aliases>>
       ELSE LET currentState == StateSnapshot(nodes, edges)
                nextState == future[1]
            IN  /\ nodes' = nextState.nodes
                /\ edges' = nextState.edges
                /\ past' = Append(past, currentState)
                /\ future' = Tail(future)
                /\ aliases' = redoAliases(aliases, Len(past))
                /\ isSaving' = FALSE
    /\ UNCHANGED uuid
    /\ Track("redo", Len(future) # 0)

clearHistory ==
    /\ past' = <<>>
    /\ future' = <<>>
    /\ aliases' = {}
    /\ UNCHANGED isSaving
    /\ StoreUnchanged
    /\ Track("clearHistory", 0)

startBatchOperation ==
    /\ isSaving' = TRUE
    /\ UNCHANGED <<past, future, aliases>>
    /\ StoreUnchanged
    /\ Track("startBatchOperation", 0)

\* set({ isSaving: false }) and then saveState(), which therefore records
endBatchOperation ==
    /\ Len(past) < MaxHist
    /\ isSaving' = FALSE
    /\ past' = saveStatePast(past, FALSE, nodes, edges)
    /\ future' = saveStateFuture(future, FALSE)
    /\ aliases' = saveStateAliases(aliases, FALSE, Len(past))
    /\ StoreUnchanged
    /\ Track("endBatchOperation", 0)

----------------------------------------------------------------------------
(* The store under every sequence of its operations *)

\* no group node is mounted: useRef({ x: 0, y: 0 }), no timer
InitGroupNode ==
    /\ prevPositionRef = Position(0, 0)
    /\ ungroupTimers = {}

\* PromptBar: no buildFlow has run
InitPromptBar == flowTimers = <<>>

\* the stacks are empty: nothing shares an object with the live graph
InitAliases == aliases = {}

\* KnifeTool as it mounts: useState(false), no listener, button up
InitKnifeTool ==
    /\ isHolding = FALSE
    /\ knifeListeners = None
    /\ buttonDown = FALSE

\* the block whiteboard as its component mounts it (useState initial values)
InitBoard ==
    /\ blocks = <<>>
    /\ connections = <<>>
    /\ isCreatingConnection = FALSE
    /\ connectionStart = None
    /\ cursorPosition = Position(0, 0)
    /\ nearestPoint = None

Init ==
    /\ nodes = initialNodes
    /\ edges = initialEdges
    /\ past = <<>>
    /\ future = <<>>
    /\ isSaving = FALSE
    /\ uuid = 1
    /\ lastOp = [op |-> "init", par |-> 0]
    /\ pre = [nodes |-> initialNodes, edges |-> initialEdges]
    /\ batch = NoBatch
    /\ InitBoard
    /\ InitGroupNode
    /\ InitPromptBar
    /\ InitAliases
    /\ InitKnifeTool

Next ==
    \/ \E type \in NodeTypes, position \in Positions : addNode(type, position)
    \/ \E nodeId \in NodeIds, a \in UpdateArgs : updateNodeText(nodeId, a)
    \/ \E nodeId \in NodeIds : deleteNode(nodeId)
    \/ \E edgeId \in NodeIds : deleteEdge(edgeId)
    \/ \E source \in Ids(nodes), target \in Ids(nodes), h \in HandlePairs :
          onConnect(Connection(source, target, h[1], h[2]))
    \/ \E changes \in SeqsUpTo(NodeChanges, MaxChanges) : onNodesChange(changes)
    \/ \E changes \in SeqsUpTo(EdgeChanges, MaxChanges) : onEdgesChange(changes)

Spec == Init /\ [][Next]_vars

----------------------------------------------------------------------------
(* The history under every sequence of its operations and of mutations *)

\* the rich-text call of updateNodeText
BoldArgs ==
    [text |-> "a", label |-> Some(""), name |-> Some(""),
     textStyle |-> Some("{}"), fontSize |-> Some("14"),
     fontFamily |-> Some("Canva Sans"),
     richTextFormats |-> Some(<<BoldFormat>>)]

Mutation ==
    \/ /\ uuid < MaxHistUuid
       /\ addNode("textNode", Position(0, 0))
    \/ \E nodeId \in Ids(nodes) : updateNodeText(nodeId, BoldArgs)
    \/ \E nodeId \in Ids(nodes) : deleteNode(nodeId)
    \/ /\ uuid < MaxHistUuid
       /\ \E source \in Ids(nodes), target \in Ids(nodes) :
             onConnect(Connection(source, target, Null, Null))

NextHistory ==
    \/ Mutation
    \/ saveState
    \/ undo
    \/ redo
    \/ clearHistory
    \/ startBatchOperation
    \/ endBatchOperation

SpecHistory == Init /\ [][NextHistory]_vars

----------------------------------------------------------------------------
(* The knife tool: deleteEdgesByPosition and distanceToLineSegment *)

\* node.width || 0
OrZero(opt) == IF opt = None THEN 0 ELSE opt[1]

\* Array.prototype.find by id: <<>> when no node has the id
FindNode(ns, id) ==
    LET found == Filter(ns, LAMBDA node : node.id = id)
    IN  IF found = <<>> THEN None ELSE Some(Head(found))

\* twice the center of a node: 2 * (position + (size || 0) / 2)
Center2(node) ==
    [x |-> 2 * node.position.x + OrZero(node.width),
     y |-> 2 * node.position.y + OrZero(node.height)]

Sq(v) == v * v

\* the distance to the infinite line through the two points
distanceToLine(x1, y1, x2, y2, px, py) ==
    LET A == px - x1
        B == py - y1
        C == x2 - x1
        D == y2 - y1
        dot == A * C + B * D
        lenSq == C * C + D * D
    IN  IF lenSq = 0
        THEN [num |-> Sq(A) + Sq(B), den |-> 1]
        ELSE [num |-> Sq(A * lenSq - dot * C) + Sq(B * lenSq - dot * D),
              den |-> Sq(lenSq)]

\* distanceToLineSegment, squared, as the fraction num / den.  param is
\* dot / lenSq (and -1 when lenSq is 0), so param < 0 is dot < 0 and
\* param > 1 is dot > lenSq; otherwise the closest point is
\* (x1 + param * C, y1 + param * D).
distanceToLineSegment(x1, y1, x2, y2, px, py) ==
    LET A == px - x1
        B == py - y1
        C == x2 - x1
        D == y2 - y1
        dot == A * C + B * D
        lenSq == C * C + D * D
    IN  IF lenSq = 0 \/ dot < 0
        THEN [num |-> Sq(px - x1) + Sq(py - y1), den |-> 1]
        ELSE IF dot > lenSq
        THEN [num |-> Sq(px - x2) + Sq(py - y2), den |-> 1]
        ELSE [num |-> Sq(A * lenSq - dot * C) + Sq(B * lenSq - dot * D),
              den |-> Sq(lenSq)]

\* distance <= radius, for a squared distance and a radius that is not negative
WithinRadius(distance, radius) == distance.num <= Sq(radius) * distance.den

\* the forEach body: the edge is marked when both its nodes are found and the
\* segment between their centers is close enough (all lengths doubled)
MarkedForDeletion(edge, ns, x, y, radius) ==
    LET sourceNode == FindNode(ns, edge.source)
        targetNode == FindNode(ns, edge.target)
    IN  /\ sourceNode # None
        /\ targetNode # None
        /\ LET s == Center2(sourceNode[1])
               t == Center2(targetNode[1])
           IN  WithinRadius(distanceToLineSegment(s.x, s.y, t.x, t.y, 2 * x, 2 * y),
                            2 * radius)

\* a loop that stops at the first edge it marks
edgesToDelete_FirstOnly(es, ns, x, y, radius) ==
    LET marked == {j \in DOMAIN es : MarkedForDeletion(es[j], ns, x, y, radius)}
    IN  {es[i].id : i \in {j \in marked : \A k \in marked : j <= k}}

edgesToDelete(es, ns, x, y, radius) ==
    {es[i].id : i \in {j \in DOMAIN es : MarkedForDeletion(es[j], ns, x, y, radius)}}

deleteEdgesByPositionResult(es, ns, x, y, radius) ==
    Filter(es, LAMBDA edge : edge.id \notin edgesToDelete(es, ns, x, y, radius))

deleteEdgesByPosition(x, y, radius) ==
    /\ edges' = deleteEdgesByPositionResult(edges, nodes, x, y, radius)
    /\ UNCHANGED <<nodes, uuid>>
    /\ HistoryUnchanged
    /\ Track("deleteEdgesByPosition", <<x, y, radius>>)

----------------------------------------------------------------------------
(* The knife on every graph of a small grid *)

\* coordinates and sizes run over 0..MaxCoord, radii over 0..MaxRadius
MaxCoord == 2
MaxRadius == 1

Coords == 0..MaxCoord

GridPositions == {Position(x, y) : x \in Coords, y \in Coords}

CornerPositions == {Position(0, MaxCoord), Position(MaxCoord, MaxCoord)}

\* a node whose size the renderer has measured (s = Some(size)) or not (None)
SizedNode(id, position, s) ==
    [NewNode(id, "textNode", position) EXCEPT !.width = s, !.height = s]

KnifeEdge(id, source, target) ==
    [id |-> id, source |-> source, target |-> target,
     sourceHandle |-> Null, targetHandle |-> Null]

\* an edge between two nodes, a second one, a self-loop, and an edge whose
\* target is not in the node list
CandidateEdges ==
    << KnifeEdge(11, 1, 2), KnifeEdge(12, 2, 3), KnifeEdge(13, 3, 3),
       KnifeEdge(14, 1, 4) >>

RECURSIVE SubSeqs(_)
SubSeqs(s) ==
    IF s = <<>> THEN {<<>>}
    ELSE LET rest == SubSeqs(Tail(s))
         IN  rest \cup {<<Head(s)>> \o r : r \in rest}

InitKnife ==
    /\ \E p2 \in GridPositions, p3 \in CornerPositions, s \in {None, Some(1)} :
          nodes = << SizedNode(1, Position(0, 0), s),
                     SizedNode(2, p2, None),
                     SizedNode(3, p3, None) >>
    /\ edges \in SubSeqs(CandidateEdges)
    /\ past = <<>>
    /\ future = <<>>
    /\ isSaving = FALSE
    /\ uuid = 1
    /\ lastOp = [op |-> "init", par |-> 0]
    /\ pre = [nodes |-> nodes, edges |-> edges]
    /\ batch = NoBatch
    /\ InitBoard
    /\ InitGroupNode
    /\ InitPromptBar
    /\ InitAliases
    /\ InitKnifeTool

NextKnife ==
    \E x \in Coords, y \in Coords, radius \in 0..MaxRadius :
        deleteEdgesByPosition(x, y, radius)

SpecKnife == InitKnife /\ [][NextKnife]_vars

----------------------------------------------------------------------------
(* distanceToLineSegment on every segment and point of the grid *)

\* a call of the helper: the observer keeps the arguments and the result
callDistanceToLineSegment(x1, y1, x2, y2, px, py) ==
    /\ lastOp' = [op |-> "distanceToLineSegment",
                  par |-> [x1 |-> x1, y1 |-> y1, x2 |-> x2, y2 |-> y2,
                           px |-> px, py |-> py,
                           distance |-> distanceToLineSegment(x1, y1, x2, y2, px, py)]]
    /\ UNCHANGED <<nodes, edges, uuid, pre, batch>>
    /\ HistoryUnchanged
    /\ UNCHANGED boardVars
    /\ UNCHANGED groupVars
    /\ UNCHANGED promptVars
    /\ UNCHANGED knifeVars

NextDistance ==
    \E x1 \in Coords, y1 \in Coords, x2 \in Coords, y2 \in Coords,
       px \in Coords, py \in Coords :
        callDistanceToLineSegment(x1, y1, x2, y2, px, py)

SpecDistance == Init /\ [][NextDistance]_vars

----------------------------------------------------------------------------
(* Adding and removing nodes, with undo and redo *)

NextIds ==
    \/ \E position \in Positions : addNode("textNode", position)
    \/ \E nodeId \in NodeIds : deleteNode(nodeId)
    \/ \E nodeId \in NodeIds : onNodesChange(<<RemoveChange(nodeId)>>)
    \/ saveState
    \/ undo
    \/ redo

SpecIds == Init /\ [][NextIds]_vars

----------------------------------------------------------------------------
(* Change lists with several entries, some of them for ids not in the graph *)

\* a change list holds at most this many entries here
MaxChangeList == 2

\* the ids that change entries name: nodes 1 and 2, edge 3, and 4, which
\* nothing has
ChangeIds == {1, 2, 3, 4}

ListedNodeChanges ==
    {RemoveChange(id) : id \in ChangeIds}
        \cup {PositionChange(id, p) : id \in ChangeIds, p \in Positions}

ListedEdgeChanges == {RemoveChange(id) : id \in ChangeIds}

NextChanges ==
    \/ \E changes \in SeqsUpTo(ListedNodeChanges, MaxChangeList) :
          onNodesChange(changes)
    \/ \E changes \in SeqsUpTo(ListedEdgeChanges, MaxChangeList) :
          onEdgesChange(changes)

----------------------------------------------------------------------------
(* updateNodeText on every choice of supplied and omitted arguments *)

\* the optional parameters of updateNodeText, which are data fields too
OptionalFields ==
    {"label", "name", "textStyle", "fontSize", "fontFamily", "richTextFormats"}

\* data that differs from every value the calls below supply
EditedData ==
    [label |-> "Title", text |-> "body", name |-> "tag",
     textStyle |-> "{bold}", fontSize |-> "28", fontFamily |-> "Arial",
     richTextFormats |-> <<ColorFormat>>]

EditedNode(id, position) ==
    [NewNode(id, "textNode", position) EXCEPT !.data = EditedData]

\* the value a call supplies for a field
SuppliedValue(field) ==
    IF field = "richTextFormats" THEN <<BoldFormat>> ELSE "new " \o field

\* a call that supplies the text and the optional arguments in `supplied`
ArgsSupplying(supplied) ==
    [field \in OptionalFields \cup {"text"} |->
        IF field = "text" THEN "new text"
        ELSE IF field \in supplied THEN Some(SuppliedValue(field))
        ELSE None]

\* the text alone, the text with one more argument, and all eight arguments
ArgsBySupply ==
    {ArgsSupplying({})} \cup {ArgsSupplying({field}) : field \in OptionalFields}
        \cup {ArgsSupplying(OptionalFields)}

InitUpdate ==
    /\ nodes = << EditedNode(1, Position(0, 0)), EditedNode(2, Position(100, 0)) >>
    /\ edges = << [id |-> 3, source |-> 1, target |-> 2,
                   sourceHandle |-> Null, targetHandle |-> Null] >>
    /\ past = <<>>
    /\ future = <<>>
    /\ isSaving = FALSE
    /\ uuid = 3
    /\ lastOp = [op |-> "init", par |-> 0]
    /\ pre = [nodes |-> nodes, edges |-> edges]
    /\ batch = NoBatch
    /\ InitBoard
    /\ InitGroupNode
    /\ InitPromptBar
    /\ InitAliases
    /\ InitKnifeTool

\* node 1 is in the graph, node 4 is not
NextUpdate ==
    \E nodeId \in {1, 4}, a \in ArgsBySupply : updateNodeText(nodeId, a)

SpecUpdate == InitUpdate /\ [][NextUpdate]_vars

\* the change lists are applied to the same graph: two nodes and an edge
SpecChanges == InitUpdate /\ [][NextChanges]_vars

----------------------------------------------------------------------------
(* Every operation of the flow store between saveState, undo and redo *)

NextSnapshots ==
    \/ Mutation
    \/ \E edgeId \in Ids(edges) : deleteEdge(edgeId)
    \/ deleteEdgesByPosition(0, 0, MaxRadius)
    \/ \E nodeId \in Ids(nodes) :
          \/ onNodesChange(<<PositionChange(nodeId, Position(100, 0))>>)
          \/ onNodesChange(<<RemoveChange(nodeId)>>)
    \/ \E edgeId \in Ids(edges) : onEdgesChange(<<RemoveChange(edgeId)>>)
    \/ saveState
    \/ undo
    \/ redo

SpecSnapshots == Init /\ [][NextSnapshots]_vars

----------------------------------------------------------------------------
(* GroupNode: a group node and the nodes whose data.groupId names it *)

\* node.data?.groupId === id
InGroup(node, id) == "groupId" \in DOMAIN node.data /\ node.data.groupId = id

\* the default data with a groupId
MemberData(groupId) ==
    [field \in DOMAIN DefaultData \cup {"groupId"} |->
        IF field = "groupId" THEN groupId ELSE DefaultData[field]]

\* const { groupId, ...restData } = node.data
restData(d) == [field \in DOMAIN d \ {"groupId"} |-> d[field]]

\* reactFlowInstance.setNodes(newNodes): the library hands the store a change
\* list of 'reset' entries, one per node, and applyNodeChanges answers such a
\* list with the entries' nodes
setNodes(newNodes) == nodes' = newNodes

TrackGroup(op, arg) ==
    /\ lastOp' = [op |-> op, par |-> arg]
    /\ UNCHANGED <<past, future, isSaving, aliases, uuid, batch>>
    /\ UNCHANGED boardVars
    /\ UNCHANGED promptVars
    /\ UNCHANGED knifeVars

\* the nodes after the effect has moved the children along with the group
movedChildren(ns, id, deltaX, deltaY) ==
    SeqMap(LAMBDA node :
               IF InGroup(node, id)
               THEN [node EXCEPT !.position =
                        Position(node.position.x + deltaX, node.position.y + deltaY)]
               ELSE node, ns)

\* The effect of the group node id on [id, xPos, yPos]; xPos and yPos are the
\* position of the node, which the library always passes as numbers.  pre
\* keeps the graph as it was before the call that made the effect run.
positionEffect(id) ==
    LET thisNode == FindNode(nodes, id)[1]
        deltaX == thisNode.position.x - prevPositionRef.x
        deltaY == thisNode.position.y - prevPositionRef.y
    IN  /\ FindNode(nodes, id) # None
        /\ thisNode.type = "groupNode"
        /\ IF deltaX # 0 \/ deltaY # 0
           THEN /\ setNodes(movedChildren(nodes, id, deltaX, deltaY))
                /\ prevPositionRef' = thisNode.position
           ELSE UNCHANGED <<nodes, prevPositionRef>>
        /\ UNCHANGED <<edges, ungroupTimers, pre>>
        /\ TrackGroup("positionEffect", id)

\* handleUngroup of the group node id: the children lose their groupId now,
\* the group node is deleted by a timer 50 ms later
handleUngroup(id) ==
    /\ FindNode(nodes, id) # None
    /\ FindNode(nodes, id)[1].type = "groupNode"
    /\ setNodes(SeqMap(LAMBDA node :
                    IF InGroup(node, id) THEN [node EXCEPT !.data = restData(@)]
                    ELSE node, nodes))
    /\ ungroupTimers' = ungroupTimers \cup {id}
    /\ pre' = Graph
    /\ UNCHANGED <<edges, prevPositionRef>>
    /\ TrackGroup("handleUngroup", id)

\* setTimeout(() => deleteNode(id), 50) fires
ungroupTimer(id) ==
    /\ id \in ungroupTimers
    /\ ungroupTimers' = ungroupTimers \ {id}
    /\ nodes' = deleteNodeNodes(nodes, id)
    /\ edges' = deleteNodeEdges(edges, id)
    /\ pre' = Graph
    /\ UNCHANGED prevPositionRef
    /\ TrackGroup("ungroupTimer", id)

\* A graph with a group: node 1 is not in a group, node 2 is a group node that
\* has been rendered at its position, nodes 3 and 4 are its children
InitGroup ==
    /\ nodes = << NewNode(1, "textNode", Position(250, 5)),
                  NewNode(2, "groupNode", Position(0, 0)),
                  [NewNode(3, "textNode", Position(0, 0)) EXCEPT !.data = MemberData(2)],
                  [NewNode(4, "textNode", Position(100, 0)) EXCEPT !.data = MemberData(2)] >>
    /\ edges = <<>>
    /\ past = <<>>
    /\ future = <<>>
    /\ isSaving = FALSE
    /\ uuid = 4
    /\ lastOp = [op |-> "init", par |-> 0]
    /\ pre = [nodes |-> nodes, edges |-> edges]
    /\ batch = NoBatch
    /\ InitBoard
    /\ prevPositionRef = Position(0, 0)
    /\ ungroupTimers = {}
    /\ InitPromptBar
    /\ InitAliases
    /\ InitKnifeTool

GroupIds == {2}

GroupPositions == {Position(0, 0), Position(100, 0)}

\* the library's change entries for the group node and for its child 3
GroupChanges ==
    {RemoveChange(id) : id \in {2, 3}}
        \cup {PositionChange(id, p) : id \in {2, 3}, p \in GroupPositions}

\* the group node is rendered at a position its effect has not seen yet
EffectPending ==
    \E id \in GroupIds :
        /\ FindNode(nodes, id) # None
        /\ FindNode(nodes, id)[1].position # prevPositionRef

\* the effect runs after the render that follows a store write, before the
\* next event is handled
NextGroup ==
    \/ /\ ~EffectPending
       /\ \/ \E changes \in SeqsUpTo(GroupChanges, MaxChangeList) : onNodesChange(changes)
          \/ \E nodeId \in {2, 3} : deleteNode(nodeId)
          \/ \E id \in GroupIds : handleUngroup(id)
          \/ \E id \in GroupIds : ungroupTimer(id)
    \/ \E id \in GroupIds : positionEffect(id)

SpecGroup == InitGroup /\ [][NextGroup]_vars

----------------------------------------------------------------------------
(* GroupNode: mounting, dragging and the periodic bounds of the group *)

\* no node lies further than this from the origin when a group is deleted
MaxExtent == 100

\* padding of updateGroupBounds
padding == 20

\* node.width || 200 and node.height || 100
widthOrDefault(node) == IF OrZero(node.width) = 0 THEN 200 ELSE node.width[1]

heightOrDefault(node) == IF OrZero(node.height) = 0 THEN 100 ELSE node.height[1]

Min(S) == CHOOSE v \in S : \A w \in S : v <= w

Max(S) == CHOOSE v \in S : \A w \in S : w <= v

\* the bounding box of the children, with the padding on each side
boundingBox(childNodes) ==
    LET ix == DOMAIN childNodes
    IN  [left |-> Min({childNodes[i].position.x : i \in ix}) - padding,
         right |-> Max({childNodes[i].position.x + widthOrDefault(childNodes[i]) : i \in ix})
                      + padding,
         top |-> Min({childNodes[i].position.y : i \in ix}) - padding,
         bottom |-> Max({childNodes[i].position.y + heightOrDefault(childNodes[i]) : i \in ix})
                       + padding]

\* thisNode.dragging: the library sets the property while the node is dragged
IsDragging(node) == "dragging" \in DOMAIN node /\ node.dragging

withDragging(node, flag) ==
    [field \in DOMAIN node \cup {"dragging"} |->
        IF field = "dragging" THEN flag ELSE node[field]]

\* { ...node.data, width, height }
withSize(d, width, height) ==
    [field \in DOMAIN d \cup {"width", "height"} |->
        IF field = "width" THEN width
        ELSE IF field = "height" THEN height
        ELSE d[field]]

\* the node list with the group node put on the box
boundedGroup(ns, id, box) ==
    SeqMap(LAMBDA node :
               IF node.id = id
               THEN [node EXCEPT !.position = Position(box.left, box.top),
                                 !.data = withSize(@, box.right - box.left,
                                                   box.bottom - box.top)]
               ELSE node, ns)

\* updateGroupBounds of the mounted group node id, called by its interval
updateGroupBounds(id) ==
    LET thisNode == FindNode(nodes, id)[1]
        childNodes == Filter(nodes, LAMBDA node : InGroup(node, id))
    IN  /\ FindNode(nodes, id) # None
        /\ thisNode.type = "groupNode"
        /\ IF childNodes = <<>> \/ IsDragging(thisNode)
           THEN UNCHANGED <<nodes, prevPositionRef>>
           ELSE LET box == boundingBox(childNodes)
                IN  /\ setNodes(boundedGroup(nodes, id, box))
                    /\ prevPositionRef' = Position(box.left, box.top)
        /\ pre' = Graph
        /\ UNCHANGED <<edges, ungroupTimers>>
        /\ TrackGroup("updateGroupBounds", id)

\* the library's position change of a drag of the node id to p
onNodeDrag(id, p) ==
    /\ FindNode(nodes, id) # None
    /\ setNodes(SeqMap(LAMBDA node :
                    IF node.id = id
                    THEN withDragging([node EXCEPT !.position = p], TRUE)
                    ELSE node, nodes))
    /\ pre' = Graph
    /\ UNCHANGED <<edges, prevPositionRef, ungroupTimers>>
    /\ TrackGroup("onNodeDrag", <<id, p>>)

\* ... and the change that ends the drag
onNodeDragStop(id) ==
    /\ FindNode(nodes, id) # None
    /\ IsDragging(FindNode(nodes, id)[1])
    /\ setNodes(SeqMap(LAMBDA node :
                    IF node.id = id THEN withDragging(node, FALSE) ELSE node, nodes))
    /\ pre' = Graph
    /\ UNCHANGED <<edges, prevPositionRef, ungroupTimers>>
    /\ TrackGroup("onNodeDragStop", id)

\* The group node has left the node list: its component is unmounted, and
\* the component mounted for a node of this id later starts with
\* useRef({ x: 0, y: 0 }) again
GonePending(id) == FindNode(nodes, id) = None /\ prevPositionRef # Position(0, 0)

groupUnmount(id) ==
    /\ GonePending(id)
    /\ prevPositionRef' = Position(0, 0)
    /\ UNCHANGED <<nodes, edges, ungroupTimers, pre>>
    /\ TrackGroup("groupUnmount", id)

\* A graph with a group that has been rendered: the group node 2 lies on the
\* box of its children 3 and 4
InitBounds ==
    /\ nodes = << NewNode(1, "textNode", Position(50, 5)),
                  NewNode(2, "groupNode", Position(-20, -20)),
                  [NewNode(3, "textNode", Position(0, 0)) EXCEPT !.data = MemberData(2)],
                  [NewNode(4, "textNode", Position(100, 0)) EXCEPT !.data = MemberData(2)] >>
    /\ edges = <<>>
    /\ past = <<>>
    /\ future = <<>>
    /\ isSaving = FALSE
    /\ uuid = 4
    /\ lastOp = [op |-> "init", par |-> 0]
    /\ pre = [nodes |-> nodes, edges |-> edges]
    /\ batch = NoBatch
    /\ InitBoard
    /\ prevPositionRef = Position(-20, -20)
    /\ ungroupTimers = {}
    /\ InitPromptBar
    /\ InitAliases
    /\ InitKnifeTool

BoundsPositions == {Position(-20, -20), Position(30, -20)}

MemberPositions == {Position(0, 0), Position(40, 10)}

WithinExtent ==
    \A i \in DOMAIN nodes :
        /\ nodes[i].position.x \in (0 - MaxExtent)..MaxExtent
        /\ nodes[i].position.y \in (0 - MaxExtent)..MaxExtent

\* nothing has been saved yet: the graph is edited only before the one
\* snapshot is taken
Editing == past = <<>> /\ future = <<>>

\* the effect and the unmount run after the render that follows a store
\* write, before the next event or timer is handled
NextBounds ==
    \/ /\ ~EffectPending
       /\ \A id \in GroupIds : ~GonePending(id)
       /\ \/ \E id \in GroupIds, p \in BoundsPositions :
                Editing /\ WithinExtent /\ onNodeDrag(id, p)
          \/ \E id \in GroupIds : onNodeDragStop(id)
          \/ \E p \in MemberPositions :
                Editing /\ WithinExtent /\ onNodesChange(<<PositionChange(3, p)>>)
          \/ \E id \in GroupIds : updateGroupBounds(id)
          \/ \E id \in GroupIds : WithinExtent /\ deleteNode(id)
          \/ Editing /\ saveState
          \/ undo
    \/ \E id \in GroupIds : positionEffect(id)
    \/ \E id \in GroupIds : groupUnmount(id)

SpecBounds == InitBounds /\ [][NextBounds]_vars

----------------------------------------------------------------------------
(* PromptBar: buildFlow and its delayed edge creation *)

\* ids are issued up to this one in the runs of buildFlow
MaxFlowUuid == 10

\* a payload's node list holds at most this many entries
MaxEntries == 2

verticalSpacing == 200

\* window.innerWidth / 2 and window.innerHeight / 2 of a window of 800 x 600
centerX == 400

centerY == 300

\* the viewport of the flow: no pan, zoom 1
viewport == [x |-> 0, y |-> 0, zoom |-> 1]

\* reactFlowInstance.project: screen coordinates to flow coordinates
project(p) ==
    Position((p.x - viewport.x) \div viewport.zoom, (p.y - viewport.y) \div viewport.zoom)

\* an entry of a node list; None is a property that is not there
Entry(title, name) == [title |-> title, name |-> name]

FallbackNodes ==
    << Entry(Some("Introduction"), Some("intro")),
       Entry(Some("Background"), Some("background")),
       Entry(Some("Methodology"), Some("method")),
       Entry(Some("Results"), Some("results")),
       Entry(Some("Conclusion"), Some("conclusion")) >>

\* The parsed response.  present: flowData is an object; kind: what
\* flowData.nodes is ("missing", "string" or "array"); nodes: the array
FlowData(present, kind, list) == [present |-> present, kind |-> kind, nodes |-> list]

\* !flowData || !flowData.nodes || !Array.isArray(flowData.nodes) ||
\* flowData.nodes.length === 0
Invalid(flowData) ==
    \/ ~flowData.present
    \/ flowData.kind = "missing"
    \/ flowData.kind # "array"
    \/ Len(flowData.nodes) = 0

\* the node list buildFlow works on
flowNodes(flowData) == IF Invalid(flowData) THEN FallbackNodes ELSE flowData.nodes

\* 'Node ' + (index + 1), index counted from 0
NodeTitle(index) == <<"Node 1", "Node 2", "Node 3", "Node 4", "Node 5">>[index + 1]

\* node.title || 'Node ' + (index + 1)
titleOf(entry, index) ==
    IF entry.title = None \/ entry.title = Some("") THEN NodeTitle(index)
    ELSE entry.title[1]

\* node.name || ''
nameOf(entry) == IF entry.name = None THEN "" ELSE entry.name[1]

\* the arguments of the updateNodeText call of buildFlow
FlowArgs(entry, index) ==
    [text |-> "", label |-> Some(titleOf(entry, index)), name |-> Some(nameOf(entry)),
     textStyle |-> Some("{}"), fontSize |-> Some("14"),
     fontFamily |-> Some("Canva Sans"), richTextFormats |-> None]

flowPosition(index) ==
    project(Position(centerX, centerY - 200 + index * verticalSpacing))

\* existingNodes.forEach(node => deleteNode(node.id)): the edges that are left
RECURSIVE clearedEdges(_, _)
clearedEdges(es, existingNodes) ==
    IF existingNodes = <<>> THEN es
    ELSE clearedEdges(deleteNodeEdges(es, Head(existingNodes).id), Tail(existingNodes))

\* ... and the nodes that are left
RECURSIVE clearedNodes(_, _)
clearedNodes(ns, existingNodes) ==
    IF existingNodes = <<>> THEN ns
    ELSE clearedNodes(deleteNodeNodes(ns, Head(existingNodes).id), Tail(existingNodes))

\* flowData.nodes.forEach: addNode, then updateNodeText on the last node of
\* the list; entries from the one at index on, id is the last id issued
RECURSIVE createNodes(_, _, _, _)
createNodes(ns, entries, index, id) ==
    IF index >= Len(entries) THEN ns
    ELSE LET newNodes == addNodeResult(ns, id + 1, "textNode", flowPosition(index))
             newNodeId == newNodes[Len(newNodes)].id
         IN  createNodes(updateNodeTextResult(newNodes, newNodeId,
                                              FlowArgs(entries[index + 1], index)),
                         entries, index + 1, id + 1)

\* the loop of the timer: onConnect for createdNodes[i] and createdNodes[i + 1]
RECURSIVE connectNodes(_, _, _, _)
connectNodes(es, createdNodes, i, id) ==
    IF i >= Len(createdNodes) THEN es
    ELSE connectNodes(onConnectResult(es, Connection(createdNodes[i], createdNodes[i + 1],
                                                     "bottom", "top"), id + 1),
                      createdNodes, i + 1, id + 1)

\* ids that the pending timers will still ask for
RECURSIVE pendingIds(_)
pendingIds(timers) ==
    IF timers = <<>> THEN 0
    ELSE (IF Len(Head(timers)) = 0 THEN 0 ELSE Len(Head(timers)) - 1) + pendingIds(Tail(timers))

TrackFlow(op, arg) ==
    /\ lastOp' = [op |-> op, par |-> arg]
    /\ pre' = Graph
    /\ batch' = BatchAfter(op)
    /\ HistoryUnchanged
    /\ UNCHANGED boardVars
    /\ UNCHANGED groupVars
    /\ UNCHANGED knifeVars

buildFlow(flowData) ==
    LET entries == flowNodes(flowData)
        n == Len(entries)
    IN  /\ uuid + n + (n - 1) + pendingIds(flowTimers) <= MaxFlowUuid
        /\ nodes' = createNodes(clearedNodes(nodes, nodes), entries, 0, uuid)
        /\ edges' = clearedEdges(edges, nodes)
        /\ uuid' = uuid + n
        /\ flowTimers' = Append(flowTimers, [k \in 1..n |-> uuid + k])
        /\ TrackFlow("buildFlow", flowData)

\* The timer of the oldest pending buildFlow fires (all timers wait 300 ms).
\* direct: nothing has run since the buildFlow that set this timer
buildFlowTimer ==
    /\ flowTimers # <<>>
    /\ LET createdNodes == Head(flowTimers)
           n == Len(createdNodes)
       IN  /\ edges' = connectNodes(edges, createdNodes, 1, uuid)
           /\ uuid' = uuid + (n - 1)
           /\ TrackFlow("buildFlowTimer",
                        [createdNodes |-> createdNodes,
                         direct |-> lastOp.op = "buildFlow" /\ Len(flowTimers) = 1])
    /\ flowTimers' = Tail(flowTimers)
    /\ UNCHANGED nodes

Entries == {Entry(Some("A"), Some("a")), Entry(None, None)}

\* the responses: null, no nodes property, nodes a string, arrays
Responses ==
    {FlowData(FALSE, "missing", <<>>), FlowData(TRUE, "missing", <<>>),
     FlowData(TRUE, "string", <<>>)}
        \cup {FlowData(TRUE, "array", list) : list \in SeqsUpTo(Entries, MaxEntries)}

NextFlow ==
    \/ \E flowData \in Responses : buildFlow(flowData)
    \/ buildFlowTimer
    \/ \E nodeId \in Ids(nodes) : deleteNode(nodeId)

SpecFlow == Init /\ [][NextFlow]_vars

----------------------------------------------------------------------------
(* KnifeTool: the knife is picked up, moved and put back *)

\* the radius handleMouseMove passes to deleteEdgesByPosition
KnifeRadius == 10

\* an effect that registers the listeners and never removes them
listenersAfterRender_Keep(holding, listeners) ==
    IF holding THEN Some(holding) ELSE listeners

\* The effect on [isHolding, handleMouseMove, handleMouseUp], run after the
\* render that follows a change of isHolding: its cleanup removes the
\* listeners, and they are registered again only while isHolding is set.
\* The state change of a mouse-down or mouse-up is rendered and its effects
\* are run before the next event is handled.
listenersAfterRender(holding, listeners) ==
    IF holding THEN Some(holding) ELSE None

TrackKnife(op, arg) ==
    /\ lastOp' = [op |-> op, par |-> arg]
    /\ pre' = Graph
    /\ UNCHANGED <<nodes, uuid, batch>>
    /\ HistoryUnchanged
    /\ UNCHANGED boardVars
    /\ UNCHANGED groupVars
    /\ UNCHANGED promptVars

\* mouse-down on the knife button
handleMouseDown ==
    /\ isHolding' = TRUE
    /\ knifeListeners' = listenersAfterRender(TRUE, knifeListeners)
    /\ buttonDown' = TRUE
    /\ UNCHANGED edges
    /\ TrackKnife("handleMouseDown", 0)

\* a mousemove event on the window at the client point (x, y)
windowMouseMove(x, y) ==
    /\ edges' =
          IF knifeListeners # None /\ knifeListeners[1]
          THEN LET flowPos == project(Position(x, y))
               IN  deleteEdgesByPositionResult(edges, nodes, flowPos.x, flowPos.y,
                                               KnifeRadius)
          ELSE edges
    /\ UNCHANGED knifeVars
    /\ TrackKnife("windowMouseMove", <<x, y>>)

\* a mouseup event on the window
windowMouseUp ==
    /\ IF knifeListeners # None
       THEN /\ isHolding' = FALSE
            /\ knifeListeners' = listenersAfterRender(FALSE, knifeListeners)
       ELSE UNCHANGED <<isHolding, knifeListeners>>
    /\ buttonDown' = FALSE
    /\ UNCHANGED edges
    /\ TrackKnife("windowMouseUp", 0)

\* three nodes, not measured yet, with an edge between each two of them
HoldNodes ==
    << NewNode(1, "textNode", Position(0, 0)),
       NewNode(2, "textNode", Position(12, 0)),
       NewNode(3, "textNode", Position(0, 12)) >>

HoldEdges == << KnifeEdge(11, 1, 2), KnifeEdge(12, 1, 3), KnifeEdge(13, 2, 3) >>

\* where the cursor is moved to
HoldCoords == {0, 6, 12}

InitHold ==
    /\ nodes = HoldNodes
    /\ edges \in SubSeqs(HoldEdges)
    /\ past = <<>>
    /\ future = <<>>
    /\ isSaving = FALSE
    /\ uuid = 1
    /\ lastOp = [op |-> "init", par |-> 0]
    /\ pre = [nodes |-> nodes, edges |-> edges]
    /\ batch = NoBatch
    /\ InitBoard
    /\ InitGroupNode
    /\ InitPromptBar
    /\ InitAliases
    /\ InitKnifeTool

NextHold ==
    \/ handleMouseDown
    \/ \E x \in HoldCoords, y \in HoldCoords : windowMouseMove(x, y)
    \/ windowMouseUp

SpecHold == InitHold /\ [][NextHold]_vars

----------------------------------------------------------------------------
(* FlowToolbar: the export of the graph as a document *)

\* the incoming and outgoing counts of every node id; an edge end that names
\* no node is not counted
nodeConnections(ns, es) ==
    [id \in Ids(ns) |->
        [incoming |-> Cardinality({i \in DOMAIN es : es[i].target = id}),
         outgoing |-> Cardinality({i \in DOMAIN es : es[i].source = id})]]

\* the entries of nodeConnections with the given counts, in node order
connectionEntries(ns, es, incoming, outgoing) ==
    LET conn == nodeConnections(ns, es)
    IN  Filter(ns, LAMBDA node : /\ conn[node.id].incoming = incoming
                                 /\ conn[node.id].outgoing = outgoing)

isLinearFlow(ns, es) ==
    LET startNodes == connectionEntries(ns, es, 0, 1)
        endNodes == connectionEntries(ns, es, 1, 0)
        middleNodes == connectionEntries(ns, es, 1, 1)
    IN  /\ Len(startNodes) = 1
        /\ Len(endNodes) = 1
        /\ Len(startNodes) + Len(endNodes) + Len(middleNodes) = Len(ns)

\* the loop of traceLinearFlow: iterations counts the times its body ran
RECURSIVE traceLoop(_, _, _, _, _, _)
traceLoop(ns, es, currentNodeId, maxIterations, orderedNodes, iterations) ==
    IF maxIterations <= 0
    THEN [orderedNodes |-> orderedNodes, iterations |-> iterations]
    ELSE LET found == Filter(ns, LAMBDA node : node.id = currentNodeId)
             pushed == IF found # <<>>
                       THEN Append(orderedNodes, found[Len(found)])
                       ELSE orderedNodes
             outgoingEdges == Filter(es, LAMBDA edge : edge.source = currentNodeId)
         IN  IF outgoingEdges = <<>>
             THEN [orderedNodes |-> pushed, iterations |-> iterations + 1]
             ELSE traceLoop(ns, es, outgoingEdges[1].target, maxIterations - 1,
                            pushed, iterations + 1)

traceLinearFlow(ns, es) ==
    LET startNodeEntry == connectionEntries(ns, es, 0, 1)
    IN  IF startNodeEntry = <<>>
        THEN [orderedNodes |-> <<>>, iterations |-> 0]
        ELSE traceLoop(ns, es, startNodeEntry[1].id, Len(ns), <<>>, 0)

\* [...allNodes].sort((a, b) => a.position.y - b.position.y): a stable sort
RECURSIVE insertByY(_, _)
insertByY(sorted, node) ==
    IF sorted = <<>> THEN <<node>>
    ELSE IF node.position.y < Head(sorted).position.y THEN <<node>> \o sorted
    ELSE <<Head(sorted)>> \o insertByY(Tail(sorted), node)

RECURSIVE sortNodesByVerticalPosition(_)
sortNodesByVerticalPosition(ns) ==
    IF ns = <<>> THEN <<>>
    ELSE insertByY(sortNodesByVerticalPosition(SubSeq(ns, 1, Len(ns) - 1)),
                   ns[Len(ns)])

\* what exportToPDF decides before it writes the document: the alert it
\* raises, if any, and the nodes it exports in order
exportOrder(ns, es) ==
    IF es # <<>> /\ ~isLinearFlow(ns, es)
    THEN [alert |-> "Flow must be linear to export", orderedNodes |-> <<>>]
    ELSE LET orderedNodes == IF es # <<>>
                             THEN traceLinearFlow(ns, es).orderedNodes
                             ELSE sortNodesByVerticalPosition(ns)
         IN  [alert |-> IF orderedNodes = <<>> THEN "No nodes found in the flow"
                        ELSE "",
              orderedNodes |-> orderedNodes]

exportToPDF ==
    /\ UNCHANGED <<nodes, edges, uuid>>
    /\ HistoryUnchanged
    /\ Track("exportToPDF", exportOrder(nodes, edges))

\* four nodes, the last two at the same height, and the edges that can be
\* drawn among them: a chain, a way back, a branch and a second start
ExportNodes ==
    << SizedNode(1, Position(0, 2), None), SizedNode(2, Position(0, 0), None),
       SizedNode(3, Position(0, 1), None), SizedNode(4, Position(1, 1), None) >>

ExportEdges ==
    << KnifeEdge(11, 1, 2), KnifeEdge(12, 2, 3), KnifeEdge(13, 3, 4),
       KnifeEdge(14, 4, 3), KnifeEdge(15, 2, 4), KnifeEdge(16, 3, 1),
       KnifeEdge(17, 4, 2) >>

InitExport ==
    /\ \E n \in 0..Len(ExportNodes) : nodes = SubSeq(ExportNodes, 1, n)
    /\ edges \in {es \in SubSeqs(ExportEdges) :
                    \A i \in DOMAIN es : {es[i].source, es[i].target} \subseteq Ids(nodes)}
    /\ past = <<>>
    /\ future = <<>>
    /\ isSaving = FALSE
    /\ uuid = 1
    /\ lastOp = [op |-> "init", par |-> 0]
    /\ pre = [nodes |-> nodes, edges |-> edges]
    /\ batch = NoBatch
    /\ InitBoard
    /\ InitGroupNode
    /\ InitPromptBar
    /\ InitAliases
    /\ InitKnifeTool

NextExport == exportToPDF

SpecExport == InitExport /\ [][NextExport]_vars

----------------------------------------------------------------------------
(* The block whiteboard: blocks, connections and connection snapping *)

\* connections holds at most this many connections
MaxConnections == 1

\* handleMouseMove snaps to a point closer to the cursor than this many pixels
SnapRadius == 50

\* ConnectionPointPosition, in the order in which the code lists the points
Sides == <<"top", "right", "bottom", "left">>

\* a block of type 'text' together with the size of its rendered element
\* (document.getElementById(`block-${id}`).getBoundingClientRect()); every
\* block the program creates has type 'text' and is rendered.  Title, content
\* and formats are not read by any step modelled here.
Block(id, position, size) ==
    [id |-> id, position |-> position, width |-> size[1], height |-> size[2]]

\* the four connection points of a block; widths and heights are even, so
\* the halves are exact
connectionPoints(block) ==
    << [position |-> "top",
        x |-> block.position.x + block.width \div 2, y |-> block.position.y],
       [position |-> "right",
        x |-> block.position.x + block.width,
        y |-> block.position.y + block.height \div 2],
       [position |-> "bottom",
        x |-> block.position.x + block.width \div 2,
        y |-> block.position.y + block.height],
       [position |-> "left",
        x |-> block.position.x, y |-> block.position.y + block.height \div 2] >>

\* Math.pow(point.x - x, 2) + Math.pow(point.y - y, 2): the square of the
\* distance the code computes.  The code compares distances, which are not
\* negative; the model compares their squares.
distanceSq(point, x, y) == Sq(point.x - x) + Sq(point.y - y)

\* distance < minDistance && distance < 50, where minDistance is
\* Number.MAX_VALUE until a point is chosen and that point's distance after
isCloser_AnyWithin(distance, closestPoint) == distance < Sq(SnapRadius)

isCloser(distance, closestPoint) ==
    /\ closestPoint = None \/ distance < closestPoint[1].distance
    /\ distance < Sq(SnapRadius)

\* connectionPoints.forEach(point => ...) for one block, from index i on
RECURSIVE forEachPoint(_, _, _, _, _)
forEachPoint(block, i, x, y, closestPoint) ==
    IF i > Len(Sides) THEN closestPoint
    ELSE LET point == connectionPoints(block)[i]
             distance == distanceSq(point, x, y)
         IN  forEachPoint(block, i + 1, x, y,
                 IF isCloser(distance, closestPoint)
                 THEN Some([blockId |-> block.id,
                            pointPosition |-> point.position,
                            position |-> Position(point.x, point.y),
                            distance |-> distance])
                 ELSE closestPoint)

\* blocks.forEach(block => ...): the source block is skipped
RECURSIVE forEachBlock(_, _, _, _, _)
forEachBlock(bs, sourceId, x, y, closestPoint) ==
    IF bs = <<>> THEN closestPoint
    ELSE forEachBlock(Tail(bs), sourceId, x, y,
             IF Head(bs).id = sourceId THEN closestPoint
             ELSE forEachPoint(Head(bs), 1, x, y, closestPoint))

TrackBoard(op, arg) ==
    /\ lastOp' = [op |-> op, par |-> arg]
    /\ UNCHANGED <<nodes, edges, past, future, isSaving, aliases, pre, batch>>
    /\ UNCHANGED groupVars
    /\ UNCHANGED promptVars
    /\ UNCHANGED knifeVars

deleteBlock(id) ==
    /\ blocks' = Filter(blocks, LAMBDA block : block.id # id)
    /\ UNCHANGED <<uuid, connections, isCreatingConnection, connectionStart,
                   cursorPosition, nearestPoint>>
    /\ TrackBoard("deleteBlock", id)

handleStartConnection(blockId, pointPosition, position) ==
    /\ isCreatingConnection' = TRUE
    /\ connectionStart' = Some([blockId |-> blockId, pointPosition |-> pointPosition,
                                position |-> position])
    /\ UNCHANGED <<connections, nearestPoint>>

\* a finish that leaves the snap target as it is
handleFinishConnection_KeepSnap(targetId, targetPoint) ==
    /\ connections' =
          IF connectionStart # None /\ connectionStart[1].blockId # targetId
          THEN Append(connections,
                 [sourceId |-> connectionStart[1].blockId, targetId |-> targetId,
                  sourcePoint |-> connectionStart[1].pointPosition,
                  targetPoint |-> targetPoint])
          ELSE connections
    /\ isCreatingConnection' = FALSE
    /\ connectionStart' = None
    /\ UNCHANGED nearestPoint

\* the id (`connection-${Date.now()}`), type and color of a connection are
\* not read by any step modelled here
handleFinishConnection(targetId, targetPoint) ==
    /\ connections' =
          IF connectionStart # None /\ connectionStart[1].blockId # targetId
          THEN Append(connections,
                 [sourceId |-> connectionStart[1].blockId, targetId |-> targetId,
                  sourcePoint |-> connectionStart[1].pointPosition,
                  targetPoint |-> targetPoint])
          ELSE connections
    /\ isCreatingConnection' = FALSE
    /\ connectionStart' = None
    /\ nearestPoint' = None

handleCancelConnection ==
    /\ isCreatingConnection' = FALSE
    /\ connectionStart' = None
    /\ nearestPoint' = None
    /\ UNCHANGED connections


\* TextBlock.handleConnectionPointClick on the point of a rendered block: a
\* click on another block's point while a connection is being created
\* finishes it, any other click starts a connection from the clicked point
handleConnectionPointClick(id, pointPosition) ==
    LET isConnectionSource ==
            connectionStart # None /\ connectionStart[1].blockId = id
        block == CHOOSE b \in {blocks[i] : i \in DOMAIN blocks} : b.id = id
        point == CHOOSE p \in {connectionPoints(block)[i] : i \in DOMAIN Sides} :
                     p.position = pointPosition
    IN  /\ id \in Ids(blocks)
        /\ IF isCreatingConnection /\ ~isConnectionSource
           THEN /\ Len(connections) < MaxConnections
                /\ handleFinishConnection(id, pointPosition)
           ELSE handleStartConnection(id, pointPosition, Position(point.x, point.y))
        /\ UNCHANGED <<blocks, uuid, cursorPosition>>
        /\ TrackBoard("handleConnectionPointClick", <<id, pointPosition>>)

\* the container's onClick, reached by a click on empty space
containerOnClick ==
    /\ IF isCreatingConnection
       THEN handleCancelConnection
       ELSE UNCHANGED <<connections, isCreatingConnection, connectionStart,
                        nearestPoint>>
    /\ UNCHANGED <<blocks, uuid, cursorPosition>>
    /\ TrackBoard("containerOnClick", 0)

\* (x, y) is the cursor relative to the container
handleMouseMove(x, y) ==
    /\ IF isCreatingConnection /\ connectionStart # None
       THEN /\ cursorPosition' = Position(x, y)
            /\ nearestPoint' =
                  forEachBlock(blocks, connectionStart[1].blockId, x, y, None)
       ELSE UNCHANGED <<cursorPosition, nearestPoint>>
    /\ UNCHANGED <<blocks, uuid, connections, isCreatingConnection, connectionStart>>
    /\ TrackBoard("handleMouseMove", 0)

----------------------------------------------------------------------------
(* The block whiteboard under every sequence of its events *)

\* the cursor moves over the points (10 * i, 10 * j), i and j in 0..MaxCursor
MaxCursor == 4

CursorCoords == {10 * k : k \in 0..MaxCursor}

\* rendered sizes <<width, height>> of a block
BlockSizes == {<<80, 40>>}

\* the connection points the user clicks
ClickSides == {"top"}

\* the places where a block was left
BlockPositions == {Position(0, 0), Position(100, 0), Position(0, 60)}

\* the blocks found in localStorage when the whiteboard mounts: three
\* blocks, the first at the origin and the other two wherever they were left
SavedBlocks ==
    { << Block(2, Position(0, 0), s2), Block(3, p3, s3), Block(4, p4, s4) >> :
        p3 \in BlockPositions, p4 \in BlockPositions,
        s2 \in BlockSizes, s3 \in BlockSizes, s4 \in BlockSizes }

InitSnap ==
    /\ nodes = initialNodes
    /\ edges = initialEdges
    /\ past = <<>>
    /\ future = <<>>
    /\ isSaving = FALSE
    /\ uuid = 1
    /\ lastOp = [op |-> "init", par |-> 0]
    /\ pre = [nodes |-> initialNodes, edges |-> initialEdges]
    /\ batch = NoBatch
    /\ blocks \in SavedBlocks
    /\ connections = <<>>
    /\ isCreatingConnection = FALSE
    /\ connectionStart = None
    /\ cursorPosition = Position(0, 0)
    /\ nearestPoint = None
    /\ InitGroupNode
    /\ InitPromptBar
    /\ InitAliases
    /\ InitKnifeTool

NextSnap ==
    \/ \E id \in Ids(blocks) : deleteBlock(id)
    \/ \E id \in Ids(blocks), pointPosition \in ClickSides :
          handleConnectionPointClick(id, pointPosition)
    \/ containerOnClick
    \/ \E x \in CursorCoords, y \in CursorCoords : handleMouseMove(x, y)

SpecSnap == InitSnap /\ [][NextSnap]_vars

----------------------------------------------------------------------------
(* Properties of the store (checked under Spec) *)

IsMutation(op) ==
    op \in {"addNode", "updateNodeText", "deleteNode", "deleteEdge", "onConnect",
            "onNodesChange", "onEdgesChange"}

Touches(edge, n) == edge.source = n \/ edge.target = n

\* C1: after deleteNode(n) the node n is not in the node list and no edge has
\* n as its source or its target.
C1_CascadeDeletion ==
    lastOp.op = "deleteNode" =>
        /\ lastOp.par \notin Ids(nodes)
        /\ \A i \in DOMAIN edges : ~Touches(edges[i], lastOp.par)

\* deleteNode has just removed a node at which an edge from another node
\* arrived; that other node is still there and the edge is gone
C1_Witness ==
    /\ lastOp.op = "deleteNode"
    /\ lastOp.par \in Ids(pre.nodes)
    /\ \E i \in DOMAIN pre.edges :
          /\ pre.edges[i].target = lastOp.par
          /\ pre.edges[i].source # lastOp.par
          /\ pre.edges[i].source \in Ids(nodes)
    /\ edges = <<>>

\* C2: in every reachable state each edge's source and target are ids of
\* nodes in the node list.
C2_NoDanglingEdge ==
    \A i \in DOMAIN edges :
        edges[i].source \in Ids(nodes) /\ edges[i].target \in Ids(nodes)

----------------------------------------------------------------------------
(* Properties of the history (checked under SpecHistory) *)

LiveGraphAfter == [nodes |-> nodes', edges |-> edges']

\* C3: an undo that found past non-empty, followed at once by redo, leaves the
\* live graph equal to the graph before the undo.
C3_UndoRedoInverse ==
    [][ (lastOp.op = "undo" /\ lastOp.par /\ lastOp'.op = "redo")
            => LiveGraphAfter = pre ]_vars

\* C4: a mutation made while recording, followed at once by undo, leaves the
\* live graph equal to the graph before the mutation.
C4_UndoRestoresMutation ==
    [][ (IsMutation(lastOp.op) /\ ~isSaving /\ lastOp'.op = "undo")
            => LiveGraphAfter = pre ]_vars

\* C5: startBatchOperation, then only mutations and saveState calls, then
\* endBatchOperation: past is one entry longer than at the start of the batch.
C5_BatchOneEntry ==
    (lastOp.op = "endBatchOperation" /\ batch.clean)
        => Len(past) = batch.pastLen + 1

\* a batch of at least two mutations and two saveState calls has just ended,
\* started on a non-empty past
C5_Witness ==
    /\ lastOp.op = "endBatchOperation"
    /\ batch.clean
    /\ batch.mutations >= 2
    /\ batch.saves >= 2
    /\ batch.pastLen >= 1
    /\ Len(past) = batch.pastLen + 1

\* C6: from startBatchOperation to the next endBatchOperation every saveState
\* leaves past and future unchanged.
C6_SuspendedUntilEndBatch ==
    [][ (batch.open /\ lastOp'.op = "saveState")
            => (past' = past /\ future' = future) ]_vars

\* C7: right after a saveState made while recording, future is empty.
C7_RedoInvalidation ==
    (lastOp.op = "saveState" /\ ~lastOp.par[1]) => future = <<>>

\* saveState has just recorded over a redo stack of two undone states
C7_Witness ==
    /\ lastOp.op = "saveState"
    /\ ~lastOp.par[1]
    /\ lastOp.par[2] >= 2
    /\ future = <<>>
    /\ past # <<>>

\* C8: undo on an empty past and redo on an empty future change neither the
\* live graph nor past, future or isSaving.
C8_UnderflowNoOp ==
    [][ ((lastOp'.op = "undo" /\ past = <<>>) \/ (lastOp'.op = "redo" /\ future = <<>>))
            => UNCHANGED <<nodes, edges, past, future, isSaving>> ]_vars

\* undo has just been called on an empty past inside a batch, with a
\* non-empty redo stack: the batch is still suspended
C8_Witness ==
    /\ lastOp.op = "undo"
    /\ ~lastOp.par
    /\ past = <<>>
    /\ future # <<>>
    /\ isSaving

----------------------------------------------------------------------------
(* Properties of the knife (checked under SpecKnife) *)

\* The points of the closed segment from s to t that lie within r of p, read
\* off the geometry: an end point is within r, or the foot of the
\* perpendicular from p falls strictly inside the segment and the
\* perpendicular is at most r long (cross^2 <= r^2 * |t - s|^2).
SegmentWithin(s, t, p, r) ==
    LET C == t.x - s.x
        D == t.y - s.y
        dot == (p.x - s.x) * C + (p.y - s.y) * D
        lenSq == C * C + D * D
        cross == C * (p.y - s.y) - D * (p.x - s.x)
    IN  \/ Sq(p.x - s.x) + Sq(p.y - s.y) <= Sq(r)
        \/ Sq(p.x - t.x) + Sq(p.y - t.y) <= Sq(r)
        \/ (0 < dot /\ dot < lenSq /\ Sq(cross) <= Sq(r) * lenSq)

\* the edge has a segment (both end nodes are in the list) and the segment
\* between the nodes' centers is at distance <= r from (x, y)
EdgeWithin(edge, ns, x, y, r) ==
    /\ edge.source \in Ids(ns)
    /\ edge.target \in Ids(ns)
    /\ LET sn == CHOOSE n \in {ns[i] : i \in DOMAIN ns} : n.id = edge.source
           tn == CHOOSE n \in {ns[i] : i \in DOMAIN ns} : n.id = edge.target
       IN  SegmentWithin(Center2(sn), Center2(tn), Position(2 * x, 2 * y), 2 * r)

\* C9: deleteEdgesByPosition(x, y, r) removes exactly the edges whose segment
\* is at distance <= r from (x, y) and keeps every other edge, in order, and
\* every node.
C9_KnifeExact ==
    lastOp.op = "deleteEdgesByPosition" =>
        /\ nodes = pre.nodes
        /\ edges = SelectSeq(pre.edges,
                LAMBDA e : ~EdgeWithin(e, pre.nodes, lastOp.par[1], lastOp.par[2],
                                       lastOp.par[3]))

\* the knife has just removed an edge and kept another edge that has a
\* segment, with a node of measured size at the end of one of them
C9_Witness ==
    /\ lastOp.op = "deleteEdgesByPosition"
    /\ Len(edges) < Len(pre.edges)
    /\ \E i \in DOMAIN edges :
          edges[i].source \in Ids(nodes) /\ edges[i].target \in Ids(nodes)
    /\ nodes[1].width # None

----------------------------------------------------------------------------
(* Properties of the snapping (checked under SpecSnap) *)

\* the connection points of every block other than the source block, each
\* with the square of its distance to the cursor
SnapCandidates ==
    { [blockId |-> blocks[i].id,
       pointPosition |-> connectionPoints(blocks[i])[j].position,
       position |-> Position(connectionPoints(blocks[i])[j].x,
                             connectionPoints(blocks[i])[j].y),
       distance |-> Sq(connectionPoints(blocks[i])[j].x - cursorPosition.x)
                      + Sq(connectionPoints(blocks[i])[j].y - cursorPosition.y)] :
        i \in {k \in DOMAIN blocks : blocks[k].id # connectionStart[1].blockId},
        j \in DOMAIN Sides }

SnapMoved ==
    /\ lastOp.op = "handleMouseMove"
    /\ isCreatingConnection
    /\ connectionStart # None

\* the snap target is a candidate in the set `within` at the smallest
\* distance of all candidates, or there is none when `within` is empty
SnapsToNearest(within) ==
    IF within = {} THEN nearestPoint = None
    ELSE /\ nearestPoint # None
         /\ nearestPoint[1] \in within
         /\ nearestPoint[1].blockId # connectionStart[1].blockId
         /\ \A c \in SnapCandidates : nearestPoint[1].distance <= c.distance

----------------------------------------------------------------------------
(* Properties of updateNodeText (checked under SpecUpdate) *)

\* C11: after updateNodeText(id, a) the node id has the supplied text, every
\* optional field has the supplied value if one was supplied and its previous
\* value if not, the node's other fields are unchanged, and so are all other
\* nodes and all edges.
C11_UpdateOnlySupplied ==
    lastOp.op = "updateNodeText" =>
        LET id == lastOp.par[1]
            a == lastOp.par[2]
        IN  /\ edges = pre.edges
            /\ DOMAIN nodes = DOMAIN pre.nodes
            /\ \A i \in DOMAIN nodes :
                  IF pre.nodes[i].id # id THEN nodes[i] = pre.nodes[i]
                  ELSE /\ [nodes[i] EXCEPT !.data = pre.nodes[i].data] = pre.nodes[i]
                       /\ DOMAIN nodes[i].data = DOMAIN pre.nodes[i].data
                       /\ nodes[i].data.text = a.text
                       /\ \A field \in OptionalFields :
                             nodes[i].data[field] =
                                 IF a[field] = None THEN pre.nodes[i].data[field]
                                 ELSE a[field][1]

\* a call that supplied the text and the font size only has just changed a
\* node whose title had been set by an earlier call: the title is kept
C11_Witness ==
    /\ lastOp.op = "updateNodeText"
    /\ lastOp.par[1] = 1
    /\ lastOp.par[2] = ArgsSupplying({"fontSize"})
    /\ nodes[1].data.fontSize = "new fontSize"
    /\ nodes[1].data.label = "new label"
    /\ nodes[1].data.name = "tag"
    /\ nodes[2].data = EditedData

----------------------------------------------------------------------------
(* More properties of the store (checked under Spec) *)

\* the id the last call was made with, for the calls that take one
CalledId == IF lastOp.op = "updateNodeText" THEN lastOp.par[1] ELSE lastOp.par

\* C12: deleteNode and updateNodeText with an id that no node has, and
\* deleteEdge with an id that no edge has, leave nodes and edges unchanged.
C12_NotFoundNoOp ==
    ( \/ lastOp.op \in {"deleteNode", "updateNodeText"}
            /\ CalledId \notin Ids(pre.nodes)
      \/ lastOp.op = "deleteEdge" /\ CalledId \notin Ids(pre.edges) )
        => Graph = pre

\* C13: every onConnect call adds exactly one edge, with an id that no edge
\* had, also when an edge with the same source, target and handles exists.
C13_ConnectAlwaysAdds ==
    lastOp.op = "onConnect" =>
        /\ Len(edges) = Len(pre.edges) + 1
        /\ SubSeq(edges, 1, Len(pre.edges)) = pre.edges
        /\ edges[Len(edges)].id \notin Ids(pre.edges)

----------------------------------------------------------------------------
(* Properties of the node ids (checked under SpecIds) *)

\* C14: the ids of the nodes are pairwise distinct, and addNode appends one
\* node with the given type and position, the default data and an id that no
\* node had, and leaves the other nodes and the edges as they were.
C14_UniqueNodeIds ==
    /\ \A i, j \in DOMAIN nodes : nodes[i].id = nodes[j].id => i = j
    /\ lastOp.op = "addNode" =>
          /\ Len(nodes) = Len(pre.nodes) + 1
          /\ SubSeq(nodes, 1, Len(pre.nodes)) = pre.nodes
          /\ nodes[Len(nodes)].id \notin Ids(pre.nodes)
          /\ nodes[Len(nodes)].type = lastOp.par[1]
          /\ nodes[Len(nodes)].position = lastOp.par[2]
          /\ nodes[Len(nodes)].data = DefaultData
          /\ edges = pre.edges

\* addNode has just been called for the second time with the same type and
\* position, after an undo and a redo: the two nodes differ in their ids only
C14_Witness ==
    /\ lastOp.op = "addNode"
    /\ past # <<>>
    /\ future = <<>>
    /\ \E i \in 1..(Len(nodes) - 1) :
          /\ nodes[i].id # nodes[Len(nodes)].id
          /\ [nodes[i] EXCEPT !.id = 0] = [nodes[Len(nodes)] EXCEPT !.id = 0]

----------------------------------------------------------------------------
(* Properties of the change lists (checked under SpecChanges) *)

\* the entries of a change list that name an element of the list
NamingPresent(changes, elements) ==
    SelectSeq(changes, LAMBDA c : c.id \in Ids(elements))

\* what a change list does to one element, read off the list: the element is
\* dropped if a remove entry names it; otherwise it takes the position of the
\* last position entry that names it, if there is one
ChangedElement(changes, item) ==
    LET mine == {k \in DOMAIN changes : changes[k].id = item.id}
        moves == {k \in mine : changes[k].type = "position"}
        last == CHOOSE k \in moves : \A m \in moves : m <= k
    IN  IF \E k \in mine : changes[k].type = "remove" THEN <<>>
        ELSE IF moves = {} THEN <<item>>
        ELSE <<[item EXCEPT !.position = changes[last].position[1]]>>

RECURSIVE ChangedElements(_, _)
ChangedElements(changes, elements) ==
    IF elements = <<>> THEN <<>>
    ELSE ChangedElement(changes, Head(elements))
             \o ChangedElements(changes, Tail(elements))

----------------------------------------------------------------------------
(* More properties of the history (checked under SpecHistory) *)

\* C16: past and future never grow beyond a fixed maximum.  The code names no
\* maximum; the claim is stated here for the maximum MaxHist - 1, one less
\* than the depth up to which the model follows the stacks.  A run that
\* reaches depth MaxHist refutes this maximum and every smaller one, and does
\* so again for every value given to MaxHist.
C16_BoundedDepth == Len(past) < MaxHist /\ Len(future) < MaxHist

\* the position of the node id in the node list ns
PositionOf(ns, id) == FindNode(ns, id)[1].position

\* the node id is in both graphs and is a child of the group in both
ChildThroughout(id, groupId) ==
    /\ FindNode(pre.nodes, id) # None
    /\ FindNode(nodes, id) # None
    /\ InGroup(FindNode(pre.nodes, id)[1], groupId)
    /\ InGroup(FindNode(nodes, id)[1], groupId)

\* C17: when the position of a group node has changed by (dx, dy) and its
\* effect has run, every node whose data.groupId is the group's id has moved
\* by exactly (dx, dy), and node 1, which is in no group, has not moved.
C17_ChildrenFollowGroup ==
    lastOp.op = "positionEffect" =>
        \A groupId \in GroupIds :
            (FindNode(pre.nodes, groupId) # None /\ FindNode(nodes, groupId) # None) =>
                LET dx == PositionOf(nodes, groupId).x - PositionOf(pre.nodes, groupId).x
                    dy == PositionOf(nodes, groupId).y - PositionOf(pre.nodes, groupId).y
                IN  (dx # 0 \/ dy # 0) =>
                        /\ \A id \in Ids(nodes) :
                             ChildThroughout(id, groupId) =>
                                /\ PositionOf(nodes, id).x = PositionOf(pre.nodes, id).x + dx
                                /\ PositionOf(nodes, id).y = PositionOf(pre.nodes, id).y + dy
                        /\ PositionOf(nodes, 1) = PositionOf(pre.nodes, 1)

\* C18: every node with a data.groupId names a group node that is in the graph.
C18_GroupIdIsLive ==
    \A i \in DOMAIN nodes :
        "groupId" \in DOMAIN nodes[i].data =>
            \E j \in DOMAIN nodes :
                nodes[j].id = nodes[i].data.groupId /\ nodes[j].type = "groupNode"

\* the node list holds one node per entry, in list order, titled as the entry
OneNodePerEntry(entries) ==
    /\ Len(nodes) = Len(entries)
    /\ \A i \in DOMAIN entries :
          /\ nodes[i].data.label = titleOf(entries[i], i - 1)
          /\ nodes[i].data.name = nameOf(entries[i])

\* the edges are the chain over the created nodes and nothing else
ChainOver(createdNodes) ==
    /\ Len(edges) = (IF createdNodes = <<>> THEN 0 ELSE Len(createdNodes) - 1)
    /\ \A i \in DOMAIN edges :
          /\ edges[i].source = createdNodes[i]
          /\ edges[i].target = createdNodes[i + 1]

\* C19: buildFlow answers a response without a usable node list with the five
\* default sections, and after its timer has run with nothing in between the
\* graph holds one node per entry and the n-1 edges from entry i to entry i+1.
C19_BuildFlowChain ==
    /\ (lastOp.op = "buildFlow" /\ Invalid(lastOp.par)) => OneNodePerEntry(FallbackNodes)
    /\ lastOp.op = "buildFlow" => OneNodePerEntry(flowNodes(lastOp.par))
    /\ (lastOp.op = "buildFlowTimer" /\ lastOp.par.direct) =>
          /\ Len(nodes) = Len(lastOp.par.createdNodes)
          /\ \A i \in DOMAIN nodes : nodes[i].id = lastOp.par.createdNodes[i]
          /\ ChainOver(lastOp.par.createdNodes)

\* the creation of a connection ends in this step
GestureEnds == isCreatingConnection /\ ~isCreatingConnection'

\* the cursor is over the block (a click there goes to the block, which stops
\* it from reaching the container)
OverBlock(block) ==
    /\ block.position.x <= cursorPosition.x
    /\ cursorPosition.x <= block.position.x + block.width
    /\ block.position.y <= cursorPosition.y
    /\ cursorPosition.y <= block.position.y + block.height

\* the click of this step is made where the cursor is: a click on a
\* connection point with the cursor on that point, a click on empty space
\* with the cursor over no block
ClickAtCursor ==
    /\ lastOp'.op = "handleConnectionPointClick" =>
          \E i \in DOMAIN blocks :
              /\ blocks[i].id = lastOp'.par[1]
              /\ \E k \in DOMAIN Sides :
                    /\ connectionPoints(blocks[i])[k].position = lastOp'.par[2]
                    /\ connectionPoints(blocks[i])[k].x = cursorPosition.x
                    /\ connectionPoints(blocks[i])[k].y = cursorPosition.y
    /\ lastOp'.op = "containerOnClick" =>
          \A i \in DOMAIN blocks : ~OverBlock(blocks[i])

\* C20: when the creation of a connection ends while there is a snap target,
\* the connection from the source point to the snap target's block and side is
\* added; when it ends with no snap target, no connection is added.
C20_SnapTargetConnects ==
    [][ (GestureEnds /\ ClickAtCursor) =>
           IF nearestPoint # None
           THEN connections' =
                   Append(connections,
                          [sourceId |-> connectionStart[1].blockId,
                           targetId |-> nearestPoint[1].blockId,
                           sourcePoint |-> connectionStart[1].pointPosition,
                           targetPoint |-> nearestPoint[1].pointPosition])
           ELSE connections' = connections ]_vars

----------------------------------------------------------------------------
(* Properties of batches and of the stacks (checked under SpecHistory) *)

\* C21: startBatchOperation, then mutations (and saveState calls only), then
\* endBatchOperation, then undo at once: the live graph is the graph at the
\* start of the batch.
C21_UndoRevertsBatch ==
    [][ (lastOp.op = "endBatchOperation" /\ batch.clean /\ batch.mutations >= 1
            /\ lastOp'.op = "undo")
            => LiveGraphAfter = batch.start ]_vars

\* undo on a non-empty past: the last entry leaves past and becomes the live
\* graph, a copy of the live graph is put in front of future
UndoStep ==
    (lastOp'.op = "undo" /\ past # <<>>) =>
        /\ past' = SubSeq(past, 1, Len(past) - 1)
        /\ LiveGraphAfter = past[Len(past)]
        /\ future' = <<StateSnapshot(nodes, edges)>> \o future

\* redo on a non-empty future: the first entry leaves future and becomes the
\* live graph, a copy of the live graph is put at the end of past
RedoStep ==
    (lastOp'.op = "redo" /\ future # <<>>) =>
        /\ future' = Tail(future)
        /\ LiveGraphAfter = future[1]
        /\ past' = Append(past, StateSnapshot(nodes, edges))

\* a redo right after an undo that found past non-empty: past, future and
\* the live graph are again what they were before the undo (past had the
\* graph that is live now as its last entry, future was the tail of future)
RedoAfterUndo ==
    (lastOp.op = "undo" /\ lastOp.par /\ lastOp'.op = "redo") =>
        /\ past' = Append(past, Graph)
        /\ future' = Tail(future)
        /\ LiveGraphAfter = pre

\* C22: undo moves the last entry of past to the live graph and a copy of the
\* live graph to the front of future, redo mirrors it, and a redo after an undo
\* ends with past, future and the live graph equal to what they were before.
C22_UndoRedoStacks == [][UndoStep /\ RedoStep /\ RedoAfterUndo]_vars

\* the top entry of a stack kept oldest first (past) or nearest first (future)
PastTop(p) == IF p = <<>> THEN None ELSE Some(p[Len(p)])

FutureTop(f) == IF f = <<>> THEN None ELSE Some(f[1])

\* which of the top of past, the live graph and the top of future differ
\* after the step
ChangedByCall ==
    {k \in {"pastTop", "liveGraph", "futureTop"} :
        \/ k = "pastTop" /\ PastTop(past') # PastTop(past)
        \/ k = "liveGraph" /\ LiveGraphAfter # Graph
        \/ k = "futureTop" /\ FutureTop(future') # FutureTop(future)}

\* C24: a call of saveState, undo, redo, startBatchOperation or
\* endBatchOperation changes at most one of the top entry of past, the live
\* graph and the top entry of future.
C24_OneChangePerCall ==
    [][ lastOp'.op \in {"saveState", "undo", "redo", "startBatchOperation",
                        "endBatchOperation"}
            => Cardinality(ChangedByCall) <= 1 ]_vars

----------------------------------------------------------------------------
(* Properties of distanceToLineSegment (checked under SpecDistance) *)

\* the segment is sampled at the points t = k / MaxSamples, k in 0..MaxSamples
MaxSamples == 4

\* the squared distance from (px, py) to (x, y)
PointDistance(x, y, px, py) == Sq(px - x) + Sq(py - y)

\* the fractions a and b are equal, a is at most b
SameFraction(a, b) == a.num * b.den = b.num * a.den

AtMost(a, b) == a.num * b.den <= b.num * a.den

\* what the claim says of the call c, all distances squared
NearestOnSegment(c) ==
    LET C == c.x2 - c.x1
        D == c.y2 - c.y1
        dot == (c.px - c.x1) * C + (c.py - c.y1) * D
        lenSq == C * C + D * D
        cross == (c.px - c.x1) * D - (c.py - c.y1) * C
        toFirst == [num |-> PointDistance(c.x1, c.y1, c.px, c.py), den |-> 1]
        toSecond == [num |-> PointDistance(c.x2, c.y2, c.px, c.py), den |-> 1]
    IN  \* no point of the segment is nearer
        /\ \A k \in 0..MaxSamples :
              AtMost(c.distance,
                     [num |-> Sq(MaxSamples * (c.px - c.x1) - k * C)
                                + Sq(MaxSamples * (c.py - c.y1) - k * D),
                      den |-> Sq(MaxSamples)])
        \* and a point of the segment is that near
        /\ lenSq = 0 => SameFraction(c.distance, toFirst)
        /\ (lenSq # 0 /\ dot < 0) => SameFraction(c.distance, toFirst)
        /\ (lenSq # 0 /\ dot > lenSq) => SameFraction(c.distance, toSecond)
        /\ (lenSq # 0 /\ 0 <= dot /\ dot <= lenSq) =>
              SameFraction(c.distance, [num |-> Sq(cross), den |-> lenSq])

\* C25: distanceToLineSegment is the distance to the nearest point of the
\* closed segment: to the first endpoint when the projection falls before it,
\* to the second when it falls beyond it, to the single point when the
\* endpoints coincide, and to the foot of the perpendicular otherwise.
C25_DistanceToSegment ==
    lastOp.op = "distanceToLineSegment" => NearestOnSegment(lastOp.par)

\* the point lies on the line through the endpoints, beyond the second one
C25_Witness ==
    /\ lastOp.op = "distanceToLineSegment"
    /\ LET c == lastOp.par
           C == c.x2 - c.x1
           D == c.y2 - c.y1
       IN  /\ C * C + D * D # 0
           /\ (c.px - c.x1) * C + (c.py - c.y1) * D > C * C + D * D
           /\ (c.px - c.x1) * D - (c.py - c.y1) * C = 0
           /\ c.distance.num > 0

----------------------------------------------------------------------------
(* Properties of repeated knife calls (checked under SpecKnife) *)

\* s is t with some elements left out, the others in the same order
RECURSIVE IsSubSeq(_, _)
IsSubSeq(s, t) ==
    IF s = <<>> THEN TRUE
    ELSE IF t = <<>> THEN FALSE
    ELSE IF Head(s) = Head(t) THEN IsSubSeq(Tail(s), Tail(t))
    ELSE IsSubSeq(s, Tail(t))

\* C26: after deleteEdgesByPosition the same call again changes nothing, the
\* edges are edges that were there before the call, and the nodes are as
\* they were.
C26_KnifeIdempotentMonotone ==
    lastOp.op = "deleteEdgesByPosition" =>
        /\ deleteEdgesByPositionResult(edges, nodes, lastOp.par[1], lastOp.par[2],
                                       lastOp.par[3]) = edges
        /\ IsSubSeq(edges, pre.edges)
        /\ nodes = pre.nodes

\* a knife call has cut two edges or more and left an edge
C26_Witness ==
    /\ lastOp.op = "deleteEdgesByPosition"
    /\ Len(edges) + 2 <= Len(pre.edges)
    /\ edges # <<>>

----------------------------------------------------------------------------
(* Properties of the knife tool (checked under SpecHold) *)

\* C27: a cursor move while the button is down since a mouse-down on the
\* knife button makes one call of deleteEdgesByPosition at the cursor with
\* the knife's radius; a cursor move at any other time deletes no edge.
C27_CutsOnlyWhileHeld ==
    lastOp.op = "windowMouseMove" =>
        IF buttonDown
        THEN edges = deleteEdgesByPositionResult(pre.edges, pre.nodes, lastOp.par[1],
                                                 lastOp.par[2], KnifeRadius)
        ELSE edges = pre.edges

\* the knife has been put back, and a move over an edge has left it
C27_Witness ==
    /\ lastOp.op = "windowMouseMove"
    /\ ~buttonDown
    /\ edges # <<>>
    /\ Len(edges) < Len(HoldEdges)
    /\ deleteEdgesByPositionResult(edges, nodes, lastOp.par[1], lastOp.par[2],
                                   KnifeRadius) # edges

----------------------------------------------------------------------------
(* Properties of the snapshots (checked under SpecSnapshots) *)

IsStoreOperation(op) == IsMutation(op) \/ op = "deleteEdgesByPosition"

\* no entry of a stack shares an object with the live graph
NoSharedObjects == \A p \in aliases : Live \notin p

\* an operation of the flow store leaves every entry of past and future as it is
StacksKept ==
    [][ IsStoreOperation(lastOp'.op) => (past' = past /\ future' = future) ]_vars

\* C23: no operation of the flow store changes an entry of past or future,
\* before or after an undo or redo has installed a snapshot as the live graph:
\* the stacks are equal after it, and no object of an entry is reachable from
\* the live graph it works on.
C23_SnapshotsImmutable == []NoSharedObjects /\ StacksKept

\* a store operation has just changed the live graph that an undo had
\* installed, with entries in both stacks
C23_Witness ==
    /\ IsStoreOperation(lastOp.op)
    /\ Graph # pre
    /\ past # <<>>
    /\ future # <<>>


\* the loop of traceLinearFlow runs at most once per node, on every graph
TraceTerminates == traceLinearFlow(nodes, edges).iterations <= Len(nodes)

\* the traced order names every node once, and the edges are exactly the
\* steps from each node of the order to the next
TracedChain(orderedNodes) ==
    /\ Len(orderedNodes) = Len(nodes)
    /\ Ids(orderedNodes) = Ids(nodes)
    /\ Len(edges) = Len(nodes) - 1
    /\ \A i \in 1..(Len(orderedNodes) - 1) :
          \E j \in DOMAIN edges : /\ edges[j].source = orderedNodes[i].id
                                  /\ edges[j].target = orderedNodes[i + 1].id
    /\ \A j \in DOMAIN edges :
          \E i \in 1..(Len(orderedNodes) - 1) :
              /\ edges[j].source = orderedNodes[i].id
              /\ edges[j].target = orderedNodes[i + 1].id

\* C28: when the graph has edges and isLinearFlow accepts it, the graph is a
\* single chain and the order exportToPDF got from traceLinearFlow holds every
\* node once, from the start of the chain to its end; the loop of
\* traceLinearFlow ends within as many iterations as there are nodes
C28_LinearFlowIsChain ==
    /\ TraceTerminates
    /\ (lastOp.op = "exportToPDF" /\ edges # <<>> /\ isLinearFlow(nodes, edges))
          => TracedChain(lastOp.par.orderedNodes)


\* a step moves a child of the group
MembersMove(groupId) ==
    \E i \in DOMAIN nodes :
        /\ InGroup(nodes[i], groupId)
        /\ i \in DOMAIN nodes'
        /\ nodes'[i].position # nodes[i].position

\* the call the effect answers has changed the position of the group node
GroupDisplaced(groupId) ==
    /\ FindNode(pre.nodes, groupId) # None
    /\ FindNode(nodes, groupId) # None
    /\ PositionOf(pre.nodes, groupId) # PositionOf(nodes, groupId)

\* a run of the effect moves the children only after a displacement of the group
EffectStep ==
    lastOp'.op = "positionEffect" =>
        \A groupId \in GroupIds : MembersMove(groupId) => GroupDisplaced(groupId)

\* the group node lies on the box of its children, padding included
OnBoxOf(group, children) ==
    LET ix == DOMAIN children
        right == group.position.x + group.data.width
        bottom == group.position.y + group.data.height
    IN  /\ \A i \in ix : /\ group.position.x <= children[i].position.x - padding
                         /\ group.position.y <= children[i].position.y - padding
                         /\ children[i].position.x + widthOrDefault(children[i]) + padding <= right
                         /\ children[i].position.y + heightOrDefault(children[i]) + padding <= bottom
        /\ \E i \in ix : group.position.x = children[i].position.x - padding
        /\ \E i \in ix : group.position.y = children[i].position.y - padding
        /\ \E i \in ix : children[i].position.x + widthOrDefault(children[i]) + padding = right
        /\ \E i \in ix : children[i].position.y + heightOrDefault(children[i]) + padding = bottom

\* a run of updateGroupBounds writes nothing when the group has no children
\* or is dragged, and otherwise only the position and the size of the group
BoundsStep ==
    lastOp'.op = "updateGroupBounds" =>
        LET groupId == lastOp'.par
            children == Filter(nodes, LAMBDA node : InGroup(node, groupId))
            k == CHOOSE i \in DOMAIN nodes : nodes[i].id = groupId
        IN  /\ Len(nodes') = Len(nodes)
            /\ \A i \in DOMAIN nodes : nodes[i].id # groupId => nodes'[i] = nodes[i]
            /\ IF children = <<>> \/ IsDragging(nodes[k])
               THEN nodes' = nodes
               ELSE /\ [nodes'[k] EXCEPT !.position = nodes[k].position,
                                         !.data = nodes[k].data] = nodes[k]
                    /\ restData(nodes'[k].data) = restData(withSize(nodes[k].data,
                                                        nodes'[k].data.width,
                                                        nodes'[k].data.height))
                    /\ OnBoxOf(nodes'[k], children)

\* C29: the effect of a group node moves the children of the group only after
\* a displacement of the group node, so not at the first render of the node;
\* a run of updateGroupBounds moves no child, is skipped when the group has
\* no children or is dragged, and otherwise changes only the position and
\* the size of the group node, which it puts on the box of the children
\* widened by the padding on each side
C29_GroupMaintenance == [][EffectStep /\ BoundsStep]_vars

\* the recomputation alone
BoundsOnly == [][BoundsStep]_vars

\* a recomputation has moved and sized the group node
BoundsWitness ==
    /\ lastOp.op = "updateGroupBounds"
    /\ pre.nodes # nodes


\* the step is a click on a connection point that finishes a connection
FinishStep ==
    /\ lastOp'.op = "handleConnectionPointClick"
    /\ isCreatingConnection
    /\ ~(connectionStart # None /\ connectionStart[1].blockId = lastOp'.par[1])

\* the step is a click on empty space that cancels a connection
CancelStep == lastOp'.op = "containerOnClick" /\ isCreatingConnection

\* no connection is being created after the step
IdleAfter ==
    /\ isCreatingConnection' = FALSE
    /\ connectionStart' = None
    /\ nearestPoint' = None

\* a step that changes the connection list is a finish on a block other than
\* the source, and it appends the connection from the source to that block
OnlyFinishConnects ==
    connections' # connections =>
        /\ FinishStep
        /\ connectionStart # None
        /\ connectionStart[1].blockId # lastOp'.par[1]
        /\ connections' =
              Append(connections,
                     [sourceId |-> connectionStart[1].blockId,
                      targetId |-> lastOp'.par[1],
                      sourcePoint |-> connectionStart[1].pointPosition,
                      targetPoint |-> lastOp'.par[2]])

NoSelfLoop == \A i \in DOMAIN connections : connections[i].sourceId # connections[i].targetId

\* C30: under every sequence of clicks on connection points, clicks on empty
\* space, cursor moves and block deletions, the connection list changes only
\* when a connection is finished on a block other than its source, so no
\* connection joins a block to itself and a cancel adds none; after every
\* finish and every cancel isCreatingConnection is false and connectionStart
\* and nearestPoint are null
C30_ConnectionMachine ==
    /\ []NoSelfLoop
    /\ [][OnlyFinishConnects /\ ((FinishStep \/ CancelStep) => IdleAfter)]_vars

\* a connection has been finished after the cursor was moved, and no
\* connection is being created
C30_Witness ==
    /\ lastOp.op = "handleConnectionPointClick"
    /\ connections # <<>>
    /\ ~isCreatingConnection
    /\ connectionStart = None
    /\ nearestPoint = None
    /\ cursorPosition # Position(0, 0)

=============================================================================
